---- MODULE Spec2Model ----
(***************************************************************************)
(* wopr-plugin-sandbox: container lifecycle (ensureSandboxContainer),      *)
(* the SQL-backed registry (updateRegistrySQL and friends) and the         *)
(* rate-limited prune (maybePruneSandboxes), as state machines.            *)
(*                                                                         *)
(* Every `await` of the TypeScript source is one action: the action is the *)
(* external operation (docker CLI, repository) completing, followed by the *)
(* synchronous code up to the next `await`.                                *)
(***************************************************************************)
EXTENDS Integers, Sequences, FiniteSets, TLC

\* ------------------------------------------------------------------ bounds
\* Number of clock ticks a behaviour may take.
MaxTicks == 3
MaxCalls == 3
\* Number of resolveSandboxContext calls a behaviour may make.
MaxContextCalls == 2
\* Length of the longest tool list handed to filterToolsByPolicy.
MaxTools == 3
\* Number of clock ticks between the calls of a stream of calls.
MaxGaps == 2

\* ------------------------------------------------------- program constants
HOT_CONTAINER_WINDOW_MS == 5 * 60 * 1000
PRUNE_INTERVAL_MS == 5 * 60 * 1000
DEFAULT_SANDBOX_IMAGE == "wopr-sandbox:bookworm-slim"
BASE_IMAGE == "debian:bookworm-slim"
MAX_CONTAINER_NAME == 63
MAX_SLUG_BASE == 32

\* ------------------------------------------------------------------- clock
\* Date.now() in milliseconds.  The process starts well after the epoch and
\* the clock advances in steps of half a hot window, so that "less than",
\* "exactly" and "more than" five minutes all occur.
TickMs == HOT_CONTAINER_WINDOW_MS \div 2
HOUR_MS == 60 * 60 * 1000
DAY_MS == 24 * HOUR_MS
StartMs == 2 * DAY_MS
EndMs == StartMs + MaxTicks * TickMs

\* ----------------------------------------------------------------- strings
\* Strings that the code inspects character by character are sequences of
\* one-character strings.
Whitespace == {" ", "\t", "\n"}
UpperLetters == <<
  "A", "B", "C", "D", "E", "F", "G", "H", "I", "J", "K", "L", "M",
  "N", "O", "P", "Q", "R", "S", "T", "U", "V", "W", "X", "Y", "Z" >>
LowerLetters == <<
  "a", "b", "c", "d", "e", "f", "g", "h", "i", "j", "k", "l", "m",
  "n", "o", "p", "q", "r", "s", "t", "u", "v", "w", "x", "y", "z" >>
Digits == {"0", "1", "2", "3", "4", "5", "6", "7", "8", "9"}
ToLowerChar(ch) ==
  IF \E i \in 1..Len(UpperLetters) : UpperLetters[i] = ch
  THEN LowerLetters[CHOOSE i \in 1..Len(UpperLetters) : UpperLetters[i] = ch]
  ELSE ch
\* The character class [a-z0-9._-].
SlugSafe ==
  {LowerLetters[i] : i \in 1..Len(LowerLetters)} \cup Digits \cup {".", "_", "-"}

RECURSIVE TrimStart(_)
TrimStart(s) ==
  IF s # <<>> /\ Head(s) \in Whitespace THEN TrimStart(Tail(s)) ELSE s

RECURSIVE TrimEnd(_)
TrimEnd(s) ==
  IF s # <<>> /\ s[Len(s)] \in Whitespace
  THEN TrimEnd(SubSeq(s, 1, Len(s) - 1)) ELSE s

Trim(s) == TrimEnd(TrimStart(s))

Slice(s, n) == IF Len(s) <= n THEN s ELSE SubSeq(s, 1, n)

ToLowerCase(s) == [i \in 1..Len(s) |-> ToLowerChar(s[i])]

\* s.replace(/[^a-z0-9._-]+/g, "-"): every maximal run of unsafe characters
\* becomes one "-".
RECURSIVE ReplaceUnsafeRuns(_, _)
ReplaceUnsafeRuns(s, inRun) ==
  IF s = <<>> THEN <<>>
  ELSE IF Head(s) \in SlugSafe
       THEN <<Head(s)>> \o ReplaceUnsafeRuns(Tail(s), FALSE)
       ELSE IF inRun THEN ReplaceUnsafeRuns(Tail(s), TRUE)
            ELSE <<"-">> \o ReplaceUnsafeRuns(Tail(s), TRUE)

RECURSIVE StripLeadingDashes(_)
StripLeadingDashes(s) ==
  IF s # <<>> /\ Head(s) = "-" THEN StripLeadingDashes(Tail(s)) ELSE s

RECURSIVE StripTrailingDashes(_)
StripTrailingDashes(s) ==
  IF s # <<>> /\ s[Len(s)] = "-"
  THEN StripTrailingDashes(SubSeq(s, 1, Len(s) - 1)) ELSE s

RECURSIVE Join(_)
Join(s) == IF s = <<>> THEN "" ELSE Head(s) \o Join(Tail(s))

\* crypto.createHash("sha256").update(trimmed).digest("hex").slice(0, 8):
\* eight hex digits, each written as a token that names the hashed input
\* (distinct inputs give distinct digits: no SHA-256 collision).
HEX8 == 8
Sha256Hex8(trimmed) == [i \in 1..HEX8 |-> "#" \o Join(trimmed)]

slugifySessionKey(value) ==
  LET trimmed == IF Trim(value) = <<>> THEN <<"s","e","s","s","i","o","n">>
                 ELSE Trim(value)
      hash == Sha256Hex8(trimmed)
      safe == StripTrailingDashes(StripLeadingDashes(
                ReplaceUnsafeRuns(ToLowerCase(trimmed), FALSE)))
      base == IF Slice(safe, MAX_SLUG_BASE) = <<>>
              THEN <<"s","e","s","s","i","o","n">>
              ELSE Slice(safe, MAX_SLUG_BASE)
  IN  base \o <<"-">> \o hash

resolveSandboxScopeKey(scope, sessionKey) ==
  LET trimmed == IF Trim(sessionKey) = <<>> THEN <<"m","a","i","n">>
                 ELSE Trim(sessionKey)
  IN  IF scope = "shared" THEN <<"s","h","a","r","e","d">> ELSE trimmed

\* Mutant: the session's slug is used in shared scope too.
ContainerNameOf_SlugInShared(cfg, sessionKey) ==
  Slice(cfg.docker.containerPrefix
          \o slugifySessionKey(resolveSandboxScopeKey("session", sessionKey)),
        MAX_CONTAINER_NAME)

\* ensureSandboxContainer, lines 273-276: the container name.
ContainerNameOf(cfg, sessionKey) ==
  LET scopeKey == resolveSandboxScopeKey(cfg.scope, sessionKey)
      slug == IF cfg.scope = "shared" THEN <<"s","h","a","r","e","d">>
              ELSE slugifySessionKey(scopeKey)
  IN  Slice(cfg.docker.containerPrefix \o slug, MAX_CONTAINER_NAME)

\* ------------------------------------------------------- command validation
\* The null byte, the backtick and the backslash are written as tokens.
NUL == "NUL"
BACKTICK == "BACKTICK"
BACKSLASH == "BACKSLASH"
ShellMetachars == {";", "&", "|", BACKTICK, "$", "<", ">", BACKSLASH}

HasChar(s, set) == \E i \in 1..Len(s) : s[i] \in set

\* validateCommand: TRUE iff it returns (the trimmed command) instead of
\* throwing.
validateCommandOk(command) ==
  /\ ~HasChar(command, {NUL})
  /\ Trim(command) # <<>>
  /\ ~HasChar(Trim(command), ShellMetachars)

\* shell-escape.ts validateEnvKey: TRUE iff it returns the key instead of
\* throwing, that is iff the key matches ^[A-Za-z_][A-Za-z0-9_]*$.
Letters ==
  { UpperLetters[i] : i \in DOMAIN UpperLetters }
    \cup { LowerLetters[i] : i \in DOMAIN LowerLetters }
validateEnvKeyOk(key) ==
  /\ key # <<>>
  /\ key[1] \in Letters \cup {"_"}
  /\ \A i \in 2..Len(key) : key[i] \in Letters \cup Digits \cup {"_"}

\* ------------------------------------------------------------ configuration
DEFAULT_SANDBOX_CONTAINER_PREFIX == <<"w","o","p","r","-","s","b","x","-">>
CUSTOM_IMAGE == "custom:latest"
NoCommand == <<>>
GoodSetup == <<" ", "l", "s", " ">>
BadSetup == <<"a", "|", "b">>

MkConfig(image, access, setup) ==
  [scope |-> "session",
   workspaceAccess |-> access,
   docker |-> [image |-> image,
               containerPrefix |-> DEFAULT_SANDBOX_CONTAINER_PREFIX,
               setupCommand |-> setup]]

\* The effective configurations (SandboxConfig) a caller passes.
Configs ==
  { MkConfig(DEFAULT_SANDBOX_IMAGE, "none", NoCommand),
    MkConfig(DEFAULT_SANDBOX_IMAGE, "ro", GoodSetup),
    MkConfig(CUSTOM_IMAGE, "rw", BadSetup) }

SessionKeys == { <<"s", "1">> }
WorkspaceDirs == { "/ws/s1" }

\* A config hash is the canonical content that SHA-256 digests; NoHash is
\* null / undefined / "" / "<no value>", LegacyHash the hash of a config no
\* caller passes any more.
NoHash == [image |-> "", setup |-> <<>>, access |-> "", dir |-> ""]
LegacyHash == [image |-> "legacy", setup |-> <<>>, access |-> "rw", dir |-> ""]
\* The empty string passed as a configHash: a string, the digest of no config.
EmptyHash == [image |-> "", setup |-> <<>>, access |-> "", dir |-> "<empty>"]

computeSandboxConfigHash(dockerCfg, workspaceAccess, workspaceDir) ==
  [image |-> dockerCfg.image, setup |-> dockerCfg.setupCommand,
   access |-> workspaceAccess, dir |-> workspaceDir]

Names == { ContainerNameOf(cfg, k) :
             cfg \in Configs, k \in SessionKeys \cup { <<"m", "a", "i", "n">> } }
         \cup { <<"o", "l", "d">> }

\* ------------------------------------------------------------------- state
Procs == {"p1", "p2"}

VARIABLES
  clock,        \* Date.now()
  ticks,        \* number of clock steps taken (bounded by MaxTicks)
  docker,       \* container name -> the docker daemon's container
  images,       \* image references the docker daemon has
  registry,     \* repository rows of sandbox_registry, keyed by id
  call,         \* process -> the call in progress and its local variables
  lastPruneAtMs,\* prune.ts module variable
  skipped,      \* history: name -> the hot-window skips since its creation
                \* (kept for the names in its domain)
  firstInsert,  \* history: name -> the values of the first insert
  history,      \* history: the maybePruneSandboxes calls made, in order
  host          \* the plugin's runtime, the storage schema flag, the
                \* legacy registry file, the host's extension table, its
                \* sandbox configuration and the workspace directories

vars == <<clock, ticks, docker, images, registry, call, lastPruneAtMs,
          skipped, firstInsert, history, host>>

\* runtime.ts lines 11-20: the module variables _logger, _storage and
\* _getMainConfig as the module is loaded.
Null == "null"
NoRuntime == [logger |-> "noopLogger", storage |-> Null, getMainConfig |-> Null]

\* What plugin.init injects (index.ts lines 71-75): the context's logger and
\* storage and a getter that forwards to the context's getMainConfig.
PluginDeps ==
  [logger |-> "ctx.log", storage |-> "ctx.storage",
   getMainConfig |-> "ctx.getMainConfig"]

\* runtime.ts lines 22-30: setRuntime stores the three dependencies; injected
\* remembers what the last call passed.
setRuntime(h, deps) ==
  [h EXCEPT !.runtime = deps, !.injected = {deps},
            !.storage = (deps.storage # Null)]

\* The legacy registry file (constants.ts SANDBOX_REGISTRY_PATH) and its
\* .backup: whether it exists, whether JSON.parse accepts it, its entries.
NoFile == [exists |-> FALSE, parses |-> FALSE, entries |-> <<>>]

\* A process whose plugin.init() has completed: runtime.ts _storage is set,
\* sandbox-repository.ts initialized is true (the schema was registered
\* once), no legacy file is left and the "sandbox" extension is registered.
RunningHost ==
  [storage |-> TRUE, initialized |-> TRUE, legacy |-> NoFile,
   backup |-> NoFile, extension |-> TRUE, calls |-> 0,
   sandbox |-> [mode |-> "undefined", workspaceAccess |-> "undefined"],
   dirs |-> {}, runtime |-> PluginDeps, injected |-> {PluginDeps},
   registered |-> 1]

NoContainer ==
  [exists |-> FALSE, running |-> FALSE, configHash |-> NoHash,
   mount |-> "none", image |-> "", setupCommand |-> <<>>, setups |-> 0,
   setupOk |-> FALSE]

\* A registry row absent from the repository is absent from the function.
HasRow(name) == name \in DOMAIN registry
NoRow == [createdAtMs |-> 0, lastUsedAtMs |-> 0, image |-> "",
          configHash |-> NoHash, sessionKey |-> <<>>]
\* repo.findById: the row, or {} for null.
FindById(name) == IF HasRow(name) THEN {registry[name]} ELSE {}
RowOf(found) == CHOOSE r \in found : TRUE

IdleCall ==
  [op |-> "none", pc |-> "idle", sessionKey |-> <<>>, scopeKey |-> <<>>,
   cfg |-> MkConfig("", "none", NoCommand), workspaceDir |-> "",
   name |-> <<>>, expectedHash |-> NoHash, now |-> 0,
   state |-> [exists |-> FALSE, running |-> FALSE],
   hasContainer |-> FALSE, running |-> FALSE, currentHash |-> NoHash,
   hashMismatch |-> FALSE, registryEntry |-> {}, decided |-> FALSE,
   path |-> "", cmds |-> <<>>, before |-> NoContainer, startRow |-> {},
   imageSeen |-> "", imageCmds |-> <<>>, labelSeen |-> NoHash,
   pruneCfg |-> [idleHours |-> 0, maxAgeDays |-> 0], ran |-> FALSE,
   warned |-> FALSE, seq |-> 0, entries |-> <<>>,
   snapshot |-> <<>>, removed |-> {}, rmFailed |-> {},
   pruned |-> 0, failures |-> 0, swallowed |-> FALSE, regBefore |-> <<>>,
   file |-> NoFile, todo |-> <<>>, successCount |-> 0, skipCount |-> 0,
   renamed |-> FALSE, extBefore |-> FALSE, ctx |-> {},
   policy |-> [allow |-> [isArray |-> FALSE, items |-> <<>>],
               deny |-> [isArray |-> FALSE, items |-> <<>>]],
   tool |-> <<>>, tools |-> <<>>, allowed |-> <<>>, denied |-> <<>>,
   verdict |-> FALSE,
   command |-> <<>>, argv |-> <<>>, envKeys |-> {}, timeout |-> 0,
   spawned |-> FALSE, shArg |-> <<>>, timedOut |-> FALSE, exitCode |-> 0,
   hostCfg |-> [mode |-> "", workspaceAccess |-> ""], trustLevel |-> "",
   sessionName |-> "", resolved |-> [mode |-> "", workspaceAccess |-> ""],
   should |-> FALSE,
   sawSkipped |-> FALSE, sawLabelSkipped |-> FALSE,
   entry |-> NoRow, existing |-> {}, record |-> NoRow, result |-> <<>>,
   error |-> ""]

Set(p, c) == call' = [call EXCEPT ![p] = c]
AllIdle == \A q \in Procs : call[q].pc = "idle"

\* ------------------------------------------- decisions of the orchestrator
\* Mutant: the registry's hash is never consulted.
CurrentHash_LabelOnly(label, registryEntry) == label

\* ensureSandboxContainer, lines 294-297: label first, registry as fallback.
CurrentHash(label, registryEntry) ==
  IF label # NoHash THEN label
  ELSE IF registryEntry = {} THEN NoHash
       ELSE RowOf(registryEntry).configHash

\* Mutant: every existing container counts as drifted.
HashMismatch_Always(currentHash, expectedHash) == TRUE

\* line 298
HashMismatch(currentHash, expectedHash) ==
  currentHash = NoHash \/ currentHash # expectedHash

\* Mutant: a container without a registry row is not protected.
IsHot_KnownOnly(running, registryEntry, now) ==
  running /\ registryEntry # {}
          /\ now - RowOf(registryEntry).lastUsedAtMs < HOT_CONTAINER_WINDOW_MS

\* lines 301-302
IsHot(running, registryEntry, now) ==
  running /\ ( registryEntry = {}
               \/ now - RowOf(registryEntry).lastUsedAtMs
                    < HOT_CONTAINER_WINDOW_MS )

\* Mutant: the `else if (!running)` branch is missing.
AfterCheck_NoStart(hasContainer, running) ==
  IF ~hasContainer THEN "dockerImageExists" ELSE "updateRegistry"

\* lines 318-331: what follows the drift check.
AfterCheck(hasContainer, running) ==
  IF ~hasContainer THEN "dockerImageExists"
  ELSE IF ~running THEN "start"
  ELSE "updateRegistry"

\* Mutant: `&& running` is missing.
RegistryConfigHash_IgnoresRunning(hashMismatch, running, currentHash, expectedHash) ==
  IF hashMismatch THEN currentHash ELSE expectedHash

\* Mutant: the expected hash is recorded on every path.
RegistryConfigHash_AlwaysExpected(hashMismatch, running, currentHash, expectedHash) ==
  expectedHash

\* line 339: the configHash passed to updateRegistry.
RegistryConfigHash(hashMismatch, running, currentHash, expectedHash) ==
  IF hashMismatch /\ running THEN currentHash ELSE expectedHash

\* Mutant: a hot-window skip leaves the stored lastUsedAtMs alone.
EnsureEntry_HotKeepsLastUsed(c) ==
  [sessionKey |-> c.scopeKey, createdAtMs |-> c.now,
   lastUsedAtMs |-> IF c.path = "hot" /\ c.registryEntry # {}
                    THEN RowOf(c.registryEntry).lastUsedAtMs ELSE c.now,
   image |-> c.cfg.docker.image,
   configHash |-> RegistryConfigHash(c.hashMismatch, c.running,
                                     c.currentHash, c.expectedHash)]

\* lines 333-340: the entry passed to updateRegistry.
EnsureEntry(c) ==
  [sessionKey |-> c.scopeKey, createdAtMs |-> c.now, lastUsedAtMs |-> c.now,
   image |-> c.cfg.docker.image,
   configHash |-> RegistryConfigHash(c.hashMismatch, c.running,
                                     c.currentHash, c.expectedHash)]

\* createSandboxContainer, lines 235-236: the bind of the workspace directory.
WorkspaceMount(workspaceAccess) ==
  IF workspaceAccess = "ro" THEN "ro" ELSE "rw"

\* The container that `docker create` with the built arguments makes; it
\* remembers the setup command of its config, how many times a setup command
\* was run in it and whether the last run succeeded.
CreatedContainer(c) ==
  [exists |-> TRUE, running |-> FALSE, configHash |-> c.expectedHash,
   mount |-> WorkspaceMount(c.cfg.workspaceAccess),
   image |-> c.cfg.docker.image,
   setupCommand |-> c.cfg.docker.setupCommand, setups |-> 0,
   setupOk |-> FALSE]

\* Entering updateRegistry from the orchestrator.
ToUpdateRegistry(c) ==
  [c EXCEPT !.pc = "updateRegistry", !.entry = EnsureEntry(c)]

Goto(c) == IF c.pc = "updateRegistry" THEN ToUpdateRegistry(c) ELSE c

Raise(c, why) == [c EXCEPT !.pc = "raised", !.error = why]

\* The history of hot-window skips.
SkipsOf(name) == IF name \in DOMAIN skipped THEN skipped[name] ELSE {}
RecordSkips(name, skips) ==
  skipped' = IF name \in DOMAIN skipped
             THEN [skipped EXCEPT ![name] = skips] ELSE skipped

\* ----------------------------------------------- ensureSandboxContainer
\* lines 272-285: names, expected hash, now, then `docker inspect` is issued.
StartEnsure(p, sessionKey, workspaceDir, cfg) ==
  /\ call[p].pc = "idle"
  /\ LET name == ContainerNameOf(cfg, sessionKey)
         h == computeSandboxConfigHash(cfg.docker, cfg.workspaceAccess,
                                       workspaceDir)
     IN Set(p, [IdleCall EXCEPT
                  !.op = "ensure", !.pc = "dockerContainerState",
                  !.sessionKey = sessionKey,
                  !.scopeKey = resolveSandboxScopeKey(cfg.scope, sessionKey),
                  !.cfg = cfg, !.workspaceDir = workspaceDir,
                  !.name = name, !.expectedHash = h, !.now = clock,
                  !.before = docker[name], !.startRow = FindById(name),
                  !.sawSkipped =
                     (\E k \in SkipsOf(name) : k.expectedHash = h),
                  !.sawLabelSkipped =
                     (\E k \in SkipsOf(name) :
                        k.expectedHash = h /\ k.labelDiffers)])
  /\ UNCHANGED <<host, clock, ticks, docker, images, registry, lastPruneAtMs,
                 skipped, firstInsert, history>>

\* dockerContainerState (lines 78-86) and lines 285-292, 318.
DockerContainerState(p) ==
  LET c == call[p] IN
  /\ c.pc = "dockerContainerState"
  /\ \E ok \in BOOLEAN :
       LET st == IF ok /\ docker[c.name].exists
                 THEN [exists |-> TRUE, running |-> docker[c.name].running]
                 ELSE [exists |-> FALSE, running |-> FALSE]
       IN Set(p, [c EXCEPT !.state = st, !.hasContainer = st.exists,
                           !.running = st.running,
                           !.path = IF st.exists THEN "" ELSE "absent",
                           !.pc = IF st.exists THEN "findRegistryEntry"
                                  ELSE "dockerImageExists"])
  /\ UNCHANGED <<host, clock, ticks, docker, images, registry, lastPruneAtMs,
                 skipped, firstInsert, history>>

\* line 293
FindRegistryEntry(p) ==
  LET c == call[p] IN
  /\ c.pc = "findRegistryEntry"
  /\ Set(p, [c EXCEPT !.registryEntry = FindById(c.name),
                      !.pc = "readContainerConfigHash"])
  /\ UNCHANGED <<host, clock, ticks, docker, images, registry, lastPruneAtMs,
                 skipped, firstInsert, history>>

\* readContainerConfigHash (lines 253-265) and lines 294-316.
ReadContainerConfigHash(p) ==
  LET c == call[p] IN
  /\ c.pc = "readContainerConfigHash"
  /\ \E ok \in BOOLEAN :
       LET label == IF ok /\ docker[c.name].exists
                    THEN docker[c.name].configHash ELSE NoHash
           cur == CurrentHash(label, c.registryEntry)
           mismatch == HashMismatch(cur, c.expectedHash)
           hot == IsHot(c.running, c.registryEntry, c.now)
           d == [c EXCEPT !.currentHash = cur, !.hashMismatch = mismatch,
                          !.decided = TRUE, !.labelSeen = label]
       IN IF mismatch
          THEN IF hot
               THEN /\ Set(p, Goto([d EXCEPT !.path = "hot",
                                     !.pc = AfterCheck(d.hasContainer,
                                                       d.running)]))
                    /\ RecordSkips(c.name, SkipsOf(c.name) \cup
                         {[expectedHash |-> c.expectedHash,
                           labelDiffers |->
                             docker[c.name].configHash # c.expectedHash]})
               ELSE /\ Set(p, [d EXCEPT !.path = "cold", !.pc = "rm"])
                    /\ UNCHANGED skipped
          ELSE /\ Set(p, Goto([d EXCEPT
                                 !.path = IF d.running THEN "reuse"
                                          ELSE "restart",
                                 !.pc = AfterCheck(d.hasContainer,
                                                   d.running)]))
               /\ UNCHANGED skipped
  /\ UNCHANGED <<host, clock, ticks, docker, images, registry, lastPruneAtMs,
                 firstInsert, history>>

\* lines 311-313: docker rm -f, failure allowed.
RemoveDrifted(p) ==
  LET c == call[p] IN
  /\ c.pc = "rm"
  /\ \E ok \in BOOLEAN :
       docker' = IF ok THEN [docker EXCEPT ![c.name] = NoContainer]
                 ELSE docker
  /\ Set(p, [c EXCEPT !.cmds = Append(@, "rm"), !.hasContainer = FALSE,
                      !.running = FALSE,
                      !.pc = AfterCheck(FALSE, FALSE)])
  /\ UNCHANGED <<host, clock, ticks, images, registry, lastPruneAtMs,
                 skipped, firstInsert, history>>

\* ----------------------------------------------- createSandboxContainer
\* Mutant: a missing image of any name is left for docker create to find.
ensureDockerImage_CreatesAnyway(c, outcome) ==
  IF outcome = "error" THEN Raise(c, "image inspect failed")
  ELSE IF outcome = "missing" /\ c.cfg.docker.image = DEFAULT_SANDBOX_IMAGE
       THEN [c EXCEPT !.pc = "pull"]
       ELSE [c EXCEPT !.pc = "create"]

\* ensureDockerImage (lines 64-76) on the outcome of dockerImageExists
\* (lines 50-62): exit code 0, "No such image" in stderr, or another
\* failure.
ensureDockerImage(c, outcome) ==
  CASE outcome = "found" -> [c EXCEPT !.pc = "create"]
    [] outcome = "missing" ->
         IF c.cfg.docker.image = DEFAULT_SANDBOX_IMAGE
         THEN [c EXCEPT !.pc = "pull"]
         ELSE Raise(c, "image not found")
    [] OTHER -> Raise(c, "image inspect failed")

\* docker image inspect, then ensureDockerImage's decision.
DockerImageExists(p) ==
  LET c == call[p]
      image == c.cfg.docker.image
  IN
  /\ c.pc = "dockerImageExists"
  /\ \E outcome \in {"found", "missing", "error"} :
       /\ outcome = "found" => image \in images
       /\ outcome = "missing" => image \notin images
       /\ Set(p, ensureDockerImage([c EXCEPT !.imageSeen = outcome],
                                   outcome))
  /\ UNCHANGED <<host, clock, ticks, docker, images, registry, lastPruneAtMs,
                 skipped, firstInsert, history>>

\* line 71: docker pull debian:bookworm-slim
PullBaseImage(p) ==
  LET c == call[p] IN
  /\ c.pc = "pull"
  /\ \E ok \in BOOLEAN :
       IF ok THEN /\ images' = images \cup {BASE_IMAGE}
                  /\ Set(p, [c EXCEPT !.pc = "tag",
                                      !.imageCmds = Append(@, "pull")])
       ELSE /\ Set(p, Raise([c EXCEPT !.imageCmds = Append(@, "pull")],
                            "docker pull failed"))
            /\ UNCHANGED images
  /\ UNCHANGED <<host, clock, ticks, docker, registry, lastPruneAtMs,
                 skipped, firstInsert, history>>

\* line 72: docker tag debian:bookworm-slim <default image>
TagDefaultImage(p) ==
  LET c == call[p] IN
  /\ c.pc = "tag"
  /\ \E ok \in BOOLEAN :
       IF ok /\ BASE_IMAGE \in images
       THEN /\ images' = images \cup {DEFAULT_SANDBOX_IMAGE}
            /\ Set(p, [c EXCEPT !.pc = "create",
                                !.imageCmds = Append(@, "tag")])
       ELSE /\ Set(p, Raise([c EXCEPT !.imageCmds = Append(@, "tag")],
                            "docker tag failed"))
            /\ UNCHANGED images
  /\ UNCHANGED <<host, clock, ticks, docker, registry, lastPruneAtMs,
                 skipped, firstInsert, history>>

\* Mutant: docker create succeeds for a name that is in use.
NameInUse_Never(name) == FALSE

\* The docker daemon rejects `docker create --name` for a name in use.
NameInUse(name) == docker[name].exists

\* lines 226-242: docker create; a name in use is a conflict.
DockerCreate(p) ==
  LET c == call[p] IN
  /\ c.pc = "create"
  /\ \E ok \in BOOLEAN :
       IF ok /\ ~NameInUse(c.name)
       THEN /\ docker' = [docker EXCEPT ![c.name] = CreatedContainer(c)]
            /\ RecordSkips(c.name, {})
            /\ Set(p, [c EXCEPT !.cmds = Append(@, "create"),
                                !.pc = "startNew"])
       ELSE /\ Set(p, Raise([c EXCEPT !.cmds = Append(@, "create")],
                            IF NameInUse(c.name) THEN "docker create conflict"
                            ELSE "docker create failed"))
            /\ UNCHANGED <<docker, skipped>>
  /\ UNCHANGED <<host, clock, ticks, images, registry, lastPruneAtMs,
                 firstInsert, history>>

\* lines 245-249: a non-blank setup command is validated and then run.
SetupStep(d) ==
  LET setup == d.cfg.docker.setupCommand IN
  IF Trim(setup) # <<>>
  THEN IF validateCommandOk(setup)
       THEN [d EXCEPT !.pc = "setup"]
       ELSE Raise(d, "invalid setup command")
  ELSE ToUpdateRegistry(d)

\* lines 243-248: docker start of the new container, then the setup step.
DockerStartNew(p) ==
  LET c == call[p]
      d == [c EXCEPT !.cmds = Append(@, "start")]
  IN
  /\ c.pc = "startNew"
  /\ \E ok \in BOOLEAN :
       IF ok /\ docker[c.name].exists
       THEN /\ docker' = [docker EXCEPT ![c.name].running = TRUE]
            /\ Set(p, SetupStep(d))
       ELSE /\ Set(p, Raise(d, "docker start failed"))
            /\ UNCHANGED docker
  /\ UNCHANGED <<host, clock, ticks, images, registry, lastPruneAtMs,
                 skipped, firstInsert, history>>

\* line 249: docker exec -i <name> sh -c -- <setup>
RunSetupCommand(p) ==
  LET c == call[p]
      d == [c EXCEPT !.cmds = Append(@, "exec")]
  IN
  /\ c.pc = "setup"
  /\ \E ok \in BOOLEAN :
       IF docker[c.name].exists /\ docker[c.name].running
       THEN /\ docker' = [docker EXCEPT ![c.name].setups = @ + 1,
                                        ![c.name].setupOk = ok]
            /\ Set(p, IF ok THEN ToUpdateRegistry(d)
                      ELSE Raise(d, "setup command failed"))
       ELSE /\ Set(p, Raise(d, "setup command failed"))
            /\ UNCHANGED docker
  /\ UNCHANGED <<host, clock, ticks, images, registry, lastPruneAtMs,
                 skipped, firstInsert, history>>

\* Mutant: the setup command is run in a restarted container as well.
AfterRestart_RunsSetup(d) == SetupStep(d)

\* lines 330-333: after the stopped container has started the call goes on
\* to updateRegistry.
AfterRestart(d) == ToUpdateRegistry(d)

\* lines 328-330: docker start of the stopped container.
DockerStartStopped(p) ==
  LET c == call[p]
      d == [c EXCEPT !.cmds = Append(@, "start")]
  IN
  /\ c.pc = "start"
  /\ \E ok \in BOOLEAN :
       IF ok /\ docker[c.name].exists
       THEN /\ docker' = [docker EXCEPT ![c.name].running = TRUE]
            /\ Set(p, AfterRestart(d))
       ELSE /\ Set(p, Raise(d, "docker start failed"))
            /\ UNCHANGED docker
  /\ UNCHANGED <<host, clock, ticks, images, registry, lastPruneAtMs,
                 skipped, firstInsert, history>>

\* ------------------------------------------------------------- the registry
\* Mutant: lastUsedAtMs is preserved from the wrong field of the stored row.
MergeRecord_StaleLastUsed(existing, entry) ==
  [sessionKey |-> entry.sessionKey,
   createdAtMs |-> IF existing # {} THEN RowOf(existing).createdAtMs
                   ELSE entry.createdAtMs,
   lastUsedAtMs |-> IF existing # {} THEN RowOf(existing).createdAtMs
                    ELSE entry.lastUsedAtMs,
   image |-> IF existing # {} THEN RowOf(existing).image ELSE entry.image,
   configHash |-> IF entry.configHash # NoHash THEN entry.configHash
                  ELSE IF existing # {} THEN RowOf(existing).configHash
                       ELSE NoHash]

\* Mutant: createdAtMs and image are taken from the entry passed.
MergeRecord_TakesEntry(existing, entry) ==
  [sessionKey |-> entry.sessionKey,
   createdAtMs |-> entry.createdAtMs,
   lastUsedAtMs |-> entry.lastUsedAtMs,
   image |-> entry.image,
   configHash |-> IF entry.configHash # NoHash THEN entry.configHash
                  ELSE IF existing # {} THEN RowOf(existing).configHash
                       ELSE NoHash]

\* Mutant: createdAtMs is that of the entry passed.
MergeRecord_ResetsCreatedAt(existing, entry) ==
  [sessionKey |-> entry.sessionKey,
   createdAtMs |-> entry.createdAtMs,
   lastUsedAtMs |-> entry.lastUsedAtMs,
   image |-> IF existing # {} THEN RowOf(existing).image ELSE entry.image,
   configHash |-> IF entry.configHash # NoHash THEN entry.configHash
                  ELSE IF existing # {} THEN RowOf(existing).configHash
                       ELSE NoHash]

\* Mutant: a stored configHash wins over the one passed, and the stored
\* sessionKey is kept.
MergeRecord_StoredWins(existing, entry) ==
  [sessionKey |-> IF existing # {} THEN RowOf(existing).sessionKey
                  ELSE entry.sessionKey,
   createdAtMs |-> IF existing # {} THEN RowOf(existing).createdAtMs
                   ELSE entry.createdAtMs,
   lastUsedAtMs |-> entry.lastUsedAtMs,
   image |-> IF existing # {} THEN RowOf(existing).image ELSE entry.image,
   configHash |-> IF existing # {} /\ RowOf(existing).configHash # NoHash
                  THEN RowOf(existing).configHash
                  ELSE entry.configHash]

\* updateRegistrySQL, lines 159-167: the record written.  `??` falls back
\* only on null / undefined (NoHash here); the empty string is a value.
MergeRecord(existing, entry) ==
  [sessionKey |-> entry.sessionKey,
   createdAtMs |-> IF existing # {} THEN RowOf(existing).createdAtMs
                   ELSE entry.createdAtMs,
   lastUsedAtMs |-> entry.lastUsedAtMs,
   image |-> IF existing # {} THEN RowOf(existing).image ELSE entry.image,
   configHash |-> IF entry.configHash # NoHash THEN entry.configHash
                  ELSE IF existing # {} THEN RowOf(existing).configHash
                       ELSE NoHash]

\* sandbox-schema.ts lines 12-20 and sandbox-migrate.ts line 32: safeParse
\* accepts an element that has the required fields of sandboxRegistryRecordSchema
\* (configHash is optional).
RecordFields ==
  {"id", "containerName", "sessionKey", "createdAtMs", "lastUsedAtMs", "image"}
SchemaValid(element) == RecordFields \subseteq DOMAIN element

\* sandbox-migrate.ts lines 31-41: the loop runs on, without awaiting, over
\* the invalid elements (skipCount++) to the next valid one, which it hands
\* to updateRegistrySQL; with none left it goes on to the rename.
RECURSIVE SkipInvalid(_)
SkipInvalid(elements) ==
  IF elements = <<>> THEN <<>>
  ELSE IF SchemaValid(Head(elements)) THEN elements
  ELSE SkipInvalid(Tail(elements))

MigrateLoop(c, elements) ==
  LET todo == SkipInvalid(elements)
      c1 == [c EXCEPT !.skipCount = @ + Len(elements) - Len(todo),
                      !.todo = todo]
  IN IF todo = <<>> THEN [c1 EXCEPT !.pc = "returned", !.renamed = TRUE]
     ELSE [c1 EXCEPT !.pc = "updateRegistry",
                     !.name = Head(todo).containerName,
                     !.entry = Head(todo)]

\* Mutant: the legacy file is left in place after the migration.
RenameLegacy_KeepsFile(h) == [h EXCEPT !.backup = h.legacy]

\* sandbox-migrate.ts line 44: renameSync(path, path + ".backup").
RenameLegacy(h) == [h EXCEPT !.legacy = NoFile, !.backup = h.legacy]

\* Mutant: the extension is registered before the migration has returned.
RegisterExtension_Early(c2, h) ==
  IF c2.op = "init" THEN [h EXCEPT !.extension = TRUE] ELSE h

\* index.ts lines 84-95: ctx.registerExtension("sandbox", ...), reached when
\* initSandboxStorage and the migration have returned.
RegisterExtension(c2, h) ==
  IF c2.op = "init" /\ c2.pc = "returned"
  THEN [h EXCEPT !.extension = TRUE] ELSE h

\* The host after a step that leaves the call of plugin.init() as c2.
HostAfter(c2, h) ==
  RegisterExtension(c2, IF c2.op = "init" /\ c2.pc = "returned" /\ c2.renamed
                        THEN RenameLegacy(h) ELSE h)

\* sandbox-migrate.ts lines 45-48: the catch logs and throws again, and
\* plugin.init has no try around the migration.
MigrateRaised(c, why) == [Raise(c, why) EXCEPT !.renamed = FALSE]

\* sandbox-migrate.ts line 43: renameSync returns, or throws into the catch.
RenameOutcome(c2, ok) ==
  IF c2.op = "init" /\ c2.pc = "returned" /\ c2.renamed /\ ~ok
  THEN MigrateRaised(c2, "rename") ELSE c2

\* The call that awaited updateRegistry resumes: ensureSandboxContainer
\* returns the container name (line 342); the migration counts the element
\* and goes on with the next one (sandbox-migrate.ts lines 39-40).
AfterUpdateRegistry(c) ==
  IF c.op = "ensure" THEN [c EXCEPT !.pc = "returned", !.result = c.name]
  ELSE IF c.op = "init"
       THEN MigrateLoop([c EXCEPT !.successCount = @ + 1], Tail(c.todo))
       ELSE [c EXCEPT !.pc = "done"]

\* updateRegistry / updateRegistrySQL called directly.
StartUpdateRegistry(p, name, entry) ==
  /\ call[p].pc = "idle"
  /\ Set(p, [IdleCall EXCEPT !.op = "updateRegistry",
                             !.pc = "updateRegistry",
                             !.name = name, !.entry = entry])
  /\ UNCHANGED <<host, clock, ticks, docker, images, registry, lastPruneAtMs,
                 skipped, firstInsert, history>>

\* lines 157-169: repo.findById, then the record is built.
RepoFindById(p) ==
  LET c == call[p]
      existing == FindById(c.name)
  IN
  /\ c.pc = "updateRegistry"
  /\ Set(p, [c EXCEPT !.existing = existing,
                      !.record = MergeRecord(existing, c.entry),
                      !.pc = IF existing # {} THEN "repoUpdate"
                             ELSE "repoInsert"])
  /\ UNCHANGED <<host, clock, ticks, docker, images, registry, lastPruneAtMs,
                 skipped, firstInsert, history>>

\* lines 172-177: repo.insert; a duplicate key raises and is caught.
RepoInsert(p) ==
  LET c == call[p] IN
  /\ c.pc = "repoInsert"
  /\ IF HasRow(c.name)
     THEN /\ Set(p, [c EXCEPT !.pc = "repoUpdateRetry"])
          /\ UNCHANGED <<registry, firstInsert, host>>
     ELSE /\ registry' = (c.name :> c.record) @@ registry
          /\ firstInsert' = [firstInsert EXCEPT ![c.name] =
                               {[createdAtMs |-> c.record.createdAtMs,
                                 image |-> c.record.image]}]
          /\ \E ok \in BOOLEAN :
               LET c2 == RenameOutcome(AfterUpdateRegistry(c), ok) IN
               Set(p, c2) /\ host' = HostAfter(c2, host)
  /\ UNCHANGED <<clock, ticks, docker, images, lastPruneAtMs,
                 skipped, history>>

\* lines 170 and 176: repo.update(id, record) replaces the row's fields.
RepoUpdate(p) ==
  LET c == call[p] IN
  /\ c.pc \in {"repoUpdate", "repoUpdateRetry"}
  /\ HasRow(c.name)
  /\ registry' = [registry EXCEPT ![c.name] = c.record]
  /\ \E ok \in BOOLEAN :
       LET c2 == RenameOutcome(AfterUpdateRegistry(c), ok) IN
       Set(p, c2) /\ host' = HostAfter(c2, host)
  /\ UNCHANGED <<clock, ticks, docker, images, lastPruneAtMs,
                 skipped, firstInsert, history>>

\* The steps of updateRegistrySQL.
RegistryStep(p) ==
  \/ RepoFindById(p)
  \/ RepoInsert(p)
  \/ RepoUpdate(p)

\* removeRegistryEntry / removeRegistryEntrySQL called directly.
StartRemoveRegistryEntry(p, name) ==
  /\ call[p].pc = "idle"
  /\ Set(p, [IdleCall EXCEPT !.op = "removeRegistryEntry",
                             !.pc = "repoDelete", !.name = name])
  /\ UNCHANGED <<host, clock, ticks, docker, images, registry, lastPruneAtMs,
                 skipped, firstInsert, history>>

DeleteRow(name) == [n \in DOMAIN registry \ {name} |-> registry[n]]

\* line 187: repo.delete
RepoDelete(p) ==
  LET c == call[p] IN
  /\ c.pc = "repoDelete"
  /\ registry' = DeleteRow(c.name)
  /\ firstInsert' = [firstInsert EXCEPT ![c.name] = {}]
  /\ Set(p, [c EXCEPT !.pc = "done"])
  /\ UNCHANGED <<host, clock, ticks, docker, images, lastPruneAtMs,
                 skipped, history>>

\* The caller has the outcome of its call; the process is free again.
Complete(p) ==
  /\ call[p].pc \in {"returned", "raised", "done"}
  /\ Set(p, IdleCall)
  /\ UNCHANGED <<host, clock, ticks, docker, images, registry, lastPruneAtMs,
                 skipped, firstInsert, history>>

\* ------------------------------------------------------------- environment
\* Time passes between two calls.
Tick ==
  /\ AllIdle
  /\ ticks < MaxTicks
  /\ clock' = clock + TickMs
  /\ ticks' = ticks + 1
  /\ UNCHANGED <<host, docker, images, registry, call, lastPruneAtMs,
                 skipped, firstInsert, history>>

\* Time passes while calls are in progress.
TimePasses ==
  /\ ticks < MaxTicks
  /\ clock' = clock + TickMs
  /\ ticks' = ticks + 1
  /\ UNCHANGED <<host, docker, images, registry, call, lastPruneAtMs,
                 skipped, firstInsert, history>>

\* A running container stops (its process is killed, the host restarts).
ContainerStops(name) ==
  /\ AllIdle
  /\ docker[name].exists /\ docker[name].running
  /\ docker' = [docker EXCEPT ![name].running = FALSE]
  /\ UNCHANGED <<host, clock, ticks, images, registry, call, lastPruneAtMs,
                 skipped, firstInsert, history>>

\* ------------------------------------- container lifecycle, one call at a time
TheName == ContainerNameOf(CHOOSE cfg \in Configs : TRUE,
                           CHOOSE k \in SessionKeys : TRUE)

\* A container left by an earlier run of the process (or by an older version,
\* which set no wopr.configHash label), with or without its registry row.
LeftContainers ==
  { NoContainer } \cup
  { [exists |-> TRUE, running |-> TRUE, configHash |-> NoHash,
     mount |-> "rw", image |-> CUSTOM_IMAGE, setupCommand |-> <<>>,
     setups |-> 0, setupOk |-> FALSE] }

LeftRows(container) ==
  IF container.exists
  THEN { <<>> } \cup
       { (TheName :> [sessionKey |-> <<"s", "1">>,
                      createdAtMs |-> StartMs - TickMs,
                      lastUsedAtMs |-> StartMs, image |-> container.image,
                      configHash |-> h]) : h \in {NoHash, LegacyHash} }
  ELSE { <<>> }

InitCommon ==
  /\ clock = StartMs
  /\ ticks = 0
  /\ call = [p \in Procs |-> IdleCall]
  /\ lastPruneAtMs = 0
  /\ host = RunningHost
  /\ history = <<>>

InitLifecycle ==
  /\ InitCommon
  /\ images \in { {}, {CUSTOM_IMAGE} }
  /\ \E container \in LeftContainers :
       /\ docker = [n \in Names |-> IF n = TheName THEN container
                                    ELSE NoContainer]
       /\ registry \in LeftRows(container)
  /\ firstInsert = [n \in Names |->
                      IF n \in DOMAIN registry
                      THEN {[createdAtMs |-> registry[n].createdAtMs,
                             image |-> registry[n].image]}
                      ELSE {}]

EnsureStep(p) ==
  \/ DockerContainerState(p)
  \/ FindRegistryEntry(p)
  \/ ReadContainerConfigHash(p)
  \/ RemoveDrifted(p)
  \/ DockerImageExists(p)
  \/ PullBaseImage(p)
  \/ TagDefaultImage(p)
  \/ DockerCreate(p)
  \/ DockerStartNew(p)
  \/ RunSetupCommand(p)
  \/ DockerStartStopped(p)
  \/ RepoFindById(p)
  \/ RepoInsert(p)
  \/ RepoUpdate(p)

Next ==
  \/ \E k \in SessionKeys, dir \in WorkspaceDirs, cfg \in Configs :
       StartEnsure("p1", k, dir, cfg)
  \/ EnsureStep("p1")
  \/ Complete("p1")
  \/ Tick
  \/ \E n \in Names : ContainerStops(n)

\* Without the history of skips.
Init == InitLifecycle /\ skipped = <<>>

\* With the history of skips.
InitHistory == InitLifecycle /\ skipped = [n \in Names |-> {}]

Spec == Init /\ [][Next]_vars

SpecHistory == InitHistory /\ [][Next]_vars

\* ----------------------------------- container lifecycle, overlapping calls
\* Two callers of ensureSandboxContainer for the same session whose steps
\* interleave; one call each.
NextOverlap ==
  \/ \E p \in Procs :
       \/ \E k \in SessionKeys, dir \in WorkspaceDirs, cfg \in Configs :
            StartEnsure(p, k, dir, cfg)
       \/ EnsureStep(p)
  \/ TimePasses

SpecOverlap == Init /\ [][NextOverlap]_vars

\* A step in which a call's registry write completes.
WritesRegistry(p) ==
  /\ call[p].op = "ensure"
  /\ call[p].pc \in {"repoInsert", "repoUpdate", "repoUpdateRetry"}
  /\ call'[p].pc = "returned"

\* C8 as claimed: across any sequence or interleaving of
\* ensureSandboxContainer calls for a name, every registry write stores a
\* lastUsedAtMs greater than or equal to the value already stored.
C8_Original ==
  [][ \A n \in DOMAIN registry \cap DOMAIN registry' :
        registry'[n].lastUsedAtMs >= registry[n].lastUsedAtMs ]_vars

\* C8 as amended: every registry write of an ensureSandboxContainer call
\* stores a lastUsedAtMs greater than or equal to the value that was stored
\* when the call started, so lastUsedAtMs never decreases across calls that
\* do not overlap.
C8_NoDecreaseSinceCallStart ==
  [][ \A p \in Procs :
        (WritesRegistry(p) /\ call[p].startRow # {}) =>
          registry'[call[p].name].lastUsedAtMs
            >= RowOf(call[p].startRow).lastUsedAtMs ]_vars

\* a call that started after another call's write raised lastUsedAtMs above
\* the value that call had stored
C8_Witness ==
  \E p, q \in Procs :
    LET c == call[p]
        d == call[q]
    IN
    /\ p # q
    /\ c.op = "ensure" /\ c.pc = "returned"
    /\ d.op = "ensure" /\ d.pc = "returned"
    /\ d.startRow # {}
    /\ RowOf(d.startRow).lastUsedAtMs = c.now
    /\ d.now > c.now
    /\ registry[d.name].lastUsedAtMs = d.now

\* The call has issued docker create, and docker create succeeded.
AttemptedCreate(c) == \E i \in DOMAIN c.cmds : c.cmds[i] = "create"
CreateErrors == {"docker create conflict", "docker create failed"}
Created(c) ==
  AttemptedCreate(c) /\ ~(c.pc = "raised" /\ c.error \in CreateErrors)

\* C27: when two ensureSandboxContainer calls for the same name both find
\* the container absent, both issue docker create; at most one create
\* succeeds, and exactly one when docker fails for no other reason; the
\* other call raises the docker error and does not return, and one container
\* of that name exists afterwards.
C27_CreateRaceOneWinner ==
  \A p, q \in Procs :
    LET c == call[p]
        d == call[q]
    IN
    ( p # q /\ c.op = "ensure" /\ d.op = "ensure" /\ c.name = d.name
      /\ ~c.before.exists /\ ~d.before.exists
      /\ c.path = "absent" /\ d.path = "absent"
      /\ AttemptedCreate(c) /\ AttemptedCreate(d) )
    =>
      /\ ~(Created(c) /\ Created(d))
      /\ Created(c) =>
           /\ d.pc = "raised" /\ d.error \in CreateErrors
           /\ d.result = <<>>
           /\ docker[c.name].exists
      /\ ( d.pc = "raised" /\ d.error = "docker create conflict" )
           => Created(c)
      /\ ( c.error # "docker create failed"
           /\ d.error # "docker create failed" )
           => (Created(c) \/ Created(d))

\* both calls found no container; one created it and returned, the other
\* raised on the name conflict
C27_Witness ==
  \E p, q \in Procs :
    LET c == call[p]
        d == call[q]
    IN
    /\ p # q /\ c.op = "ensure" /\ d.op = "ensure" /\ c.name = d.name
    /\ ~c.before.exists /\ ~d.before.exists
    /\ c.path = "absent" /\ d.path = "absent"
    /\ c.pc = "returned" /\ Created(c)
    /\ d.pc = "raised" /\ d.error = "docker create conflict"
    /\ docker[c.name].exists /\ docker[c.name].running
    /\ HasRow(c.name)

\* ------------------------------------ container lifecycle, a call and the next
\* Calls of ensureSandboxContainer one after the other, the last call that
\* returned being kept beside the one in progress: p1 holds the previous
\* call, p2 the current one.
BetweenCalls ==
  call["p2"].pc = "idle" /\ call["p1"].pc \in {"idle", "returned"}

\* The first call of a stream.
StartFirst(sessionKey, workspaceDir, cfg) ==
  /\ call["p2"].pc = "idle"
  /\ StartEnsure("p1", sessionKey, workspaceDir, cfg)

\* The call that follows a call that returned.
StartFollowing(sessionKey, workspaceDir, cfg) ==
  /\ call["p1"].pc = "returned"
  /\ StartEnsure("p2", sessionKey, workspaceDir, cfg)

\* The current call has returned and is now the previous one.
BecomesPrevious ==
  /\ call["p2"].pc = "returned"
  /\ call' = [call EXCEPT !["p1"] = call["p2"], !["p2"] = IdleCall]
  /\ UNCHANGED <<host, clock, ticks, docker, images, registry, lastPruneAtMs,
                 skipped, firstInsert, history>>

\* A call raised: the stream starts again.
StreamEnds ==
  /\ \E p \in Procs : call[p].pc = "raised"
  /\ call' = [p \in Procs |-> IdleCall]
  /\ UNCHANGED <<host, clock, ticks, docker, images, registry, lastPruneAtMs,
                 skipped, firstInsert, history>>

\* Time passes between two calls.
TickBetween ==
  /\ BetweenCalls
  /\ ticks < MaxGaps
  /\ clock' = clock + TickMs
  /\ ticks' = ticks + 1
  /\ UNCHANGED <<host, docker, images, registry, call, lastPruneAtMs,
                 skipped, firstInsert, history>>

\* A running container stops between two calls.
StopsBetween(name) ==
  /\ BetweenCalls
  /\ docker[name].exists /\ docker[name].running
  /\ docker' = [docker EXCEPT ![name].running = FALSE]
  /\ UNCHANGED <<host, clock, ticks, images, registry, call, lastPruneAtMs,
                 skipped, firstInsert, history>>

NextRepeat ==
  \/ \E k \in SessionKeys, dir \in WorkspaceDirs, cfg \in Configs :
       \/ StartFirst(k, dir, cfg)
       \/ StartFollowing(k, dir, cfg)
  \/ \E p \in Procs : EnsureStep(p)
  \/ BecomesPrevious
  \/ StreamEnds
  \/ TickBetween
  \/ \E n \in Names : StopsBetween(n)

\* The custom image has been built.
InitRepeat == Init /\ images = {CUSTOM_IMAGE}

SpecRepeat == InitRepeat /\ [][NextRepeat]_vars

\* ------------------------------------------------------------------ pruning
\* prune.ts (src/src/shared.ts lines 32-114).

\* maybePruneSandboxes, line 79: the debounce test.
Debounced(now, last) == now - last < PRUNE_INTERVAL_MS

\* Mutant: the timestamp is not advanced before the pass is awaited.
AdvanceLastPrune_NotBeforePass(now, last) == last

\* maybePruneSandboxes, line 82: lastPruneAtMs = now, before the pass.
AdvanceLastPrune(now, last) == now

\* Mutant: an entry exactly at a threshold is evicted.
ShouldEvict_AtThreshold(pruneCfg, now, entry) ==
  LET idleMs == now - entry.lastUsedAtMs
      ageMs == now - entry.createdAtMs
  IN \/ pruneCfg.idleHours > 0 /\ idleMs >= pruneCfg.idleHours * HOUR_MS
     \/ pruneCfg.maxAgeDays > 0 /\ ageMs >= pruneCfg.maxAgeDays * DAY_MS

\* pruneSandboxContainers, lines 55-61: the eviction test of one entry.
ShouldEvict(pruneCfg, now, entry) ==
  LET idleMs == now - entry.lastUsedAtMs
      ageMs == now - entry.createdAtMs
  IN \/ pruneCfg.idleHours > 0 /\ idleMs > pruneCfg.idleHours * HOUR_MS
     \/ pruneCfg.maxAgeDays > 0 /\ ageMs > pruneCfg.maxAgeDays * DAY_MS

\* Mutant: the error of the pass leaves maybePruneSandboxes.
PruneFailed_Rethrows(c) == [c EXCEPT !.pc = "raised", !.error = "prune"]

\* maybePruneSandboxes, lines 86-89: the catch warns and swallows.
PruneFailed(c) == [c EXCEPT !.pc = "returned", !.warned = TRUE]

\* pruneSandboxContainers, lines 54-73: the loop runs on, without awaiting,
\* to the next entry that is to be evicted; with none left the pass and
\* maybePruneSandboxes return.
RECURSIVE SkipKept(_, _, _)
SkipKept(pruneCfg, now, entries) ==
  IF entries = <<>> THEN <<>>
  ELSE IF ShouldEvict(pruneCfg, now, Head(entries)) THEN entries
  ELSE SkipKept(pruneCfg, now, Tail(entries))

PruneLoop(c, entries) ==
  LET todo == SkipKept(c.pruneCfg, c.now, entries) IN
  IF todo = <<>> THEN [c EXCEPT !.entries = <<>>, !.pc = "returned"]
  ELSE [c EXCEPT !.entries = todo, !.pc = "pruneRm"]

\* The rows findMany({}) returns, in an order of the store's choosing.
Snapshots ==
  { q \in UNION { [1..n -> DOMAIN registry] : n \in {Cardinality(DOMAIN registry)} } :
      \A i, j \in DOMAIN q : i # j => q[i] # q[j] }

SnapshotOf(q) ==
  [i \in DOMAIN q |->
     [containerName |-> q[i], createdAtMs |-> registry[q[i]].createdAtMs,
      lastUsedAtMs |-> registry[q[i]].lastUsedAtMs]]

\* maybePruneSandboxes, lines 77-85, with pruneSandboxContainers lines 45-53
\* up to its first await.
StartMaybePrune(p, pruneCfg) ==
  LET now == clock
      c == [IdleCall EXCEPT !.op = "maybePrune", !.now = now,
                            !.pruneCfg = pruneCfg,
                            !.seq = Len(history) + 1]
  IN
  /\ call[p].pc = "idle"
  /\ Len(history) < MaxCalls
  /\ IF Debounced(now, lastPruneAtMs)
     THEN /\ Set(p, [c EXCEPT !.pc = "returned"])
          /\ history' = Append(history, [at |-> now, ran |-> FALSE])
          /\ UNCHANGED lastPruneAtMs
     ELSE /\ lastPruneAtMs' = AdvanceLastPrune(now, lastPruneAtMs)
          /\ history' = Append(history, [at |-> now, ran |-> TRUE])
          /\ Set(p, [c EXCEPT !.ran = TRUE,
                              !.pc = IF pruneCfg.idleHours = 0
                                        /\ pruneCfg.maxAgeDays = 0
                                     THEN "returned"
                                     ELSE "listRegistryEntries"])
  /\ UNCHANGED <<host, clock, ticks, docker, images, registry, skipped, firstInsert>>

\* line 53: listRegistryEntries resolves with the rows, or the store fails.
ListRegistryEntries(p) ==
  LET c == call[p] IN
  /\ c.pc = "listRegistryEntries"
  /\ \/ \E q \in Snapshots :
          Set(p, PruneLoop([c EXCEPT !.snapshot = SnapshotOf(q)],
                           SnapshotOf(q)))
     \/ Set(p, PruneFailed(c))
  /\ UNCHANGED <<host, clock, ticks, docker, images, registry, lastPruneAtMs,
                 skipped, firstInsert, history>>

\* Mutant: the registry row is removed only after docker rm -f succeeded.
AfterPruneRm_OnlyOnSuccess(c, ok) ==
  IF ok THEN [c EXCEPT !.pc = "pruneRemoveEntry"]
  ELSE PruneLoop([c EXCEPT !.rmFailed = @ \cup
                                 {Head(c.entries).containerName}],
                 Tail(c.entries))

\* lines 63-70: whether docker rm -f succeeded or not (a non-zero exit is
\* allowed, a throw is caught), the finally block goes on to the registry.
AfterPruneRm(c, ok) ==
  [c EXCEPT !.pc = "pruneRemoveEntry",
            !.rmFailed = IF ok THEN @
                         ELSE @ \cup {Head(c.entries).containerName}]

\* lines 63-69: docker rm -f with allowFailure.
PruneRm(p) ==
  LET c == call[p]
      name == Head(c.entries).containerName
  IN
  /\ c.pc = "pruneRm"
  /\ \E ok \in BOOLEAN :
       /\ docker' = IF ok /\ docker[name].exists
                    THEN [docker EXCEPT ![name] = NoContainer]
                    ELSE docker
       /\ Set(p, AfterPruneRm(c, ok))
  /\ UNCHANGED <<host, clock, ticks, images, registry, lastPruneAtMs,
                 skipped, firstInsert, history>>

\* line 70: removeRegistryEntry in the finally block; when the store fails
\* the error leaves the pass and is caught by maybePruneSandboxes.
PruneRemoveEntry(p) ==
  LET c == call[p]
      name == Head(c.entries).containerName
  IN
  /\ c.pc = "pruneRemoveEntry"
  /\ \/ /\ registry' = DeleteRow(name)
        /\ firstInsert' = [firstInsert EXCEPT ![name] = {}]
        /\ Set(p, PruneLoop([c EXCEPT !.removed = @ \cup {name}],
                             Tail(c.entries)))
     \/ /\ Set(p, PruneFailed(c))
        /\ UNCHANGED <<registry, firstInsert>>
  /\ UNCHANGED <<host, clock, ticks, docker, images, lastPruneAtMs,
                 skipped, history>>

\* Rows left by earlier runs: used just now, idle for two hours, created two
\* days ago, or exactly one hour idle and one day old.
PruneNames == { TheName, <<"o", "l", "d">> }
FreshRow ==
  [sessionKey |-> <<"s", "1">>, createdAtMs |-> StartMs - TickMs,
   lastUsedAtMs |-> StartMs, image |-> DEFAULT_SANDBOX_IMAGE,
   configHash |-> NoHash]
IdleRow ==
  [FreshRow EXCEPT !.createdAtMs = StartMs - 2 * HOUR_MS,
                   !.lastUsedAtMs = StartMs - 2 * HOUR_MS]
AgedRow == [FreshRow EXCEPT !.createdAtMs = StartMs - 2 * DAY_MS]
ExactRow ==
  [FreshRow EXCEPT !.createdAtMs = StartMs - DAY_MS,
                   !.lastUsedAtMs = StartMs - HOUR_MS]
LeftPruneRows(n) ==
  IF n = TheName THEN {AgedRow, ExactRow} ELSE {IdleRow}

PruneConfigs ==
  { [idleHours |-> 0, maxAgeDays |-> 0],
    [idleHours |-> 1, maxAgeDays |-> 0],
    [idleHours |-> 1, maxAgeDays |-> 1] }

InitPrune ==
  /\ InitCommon
  /\ skipped = <<>>
  /\ images = {}
  /\ \E present \in SUBSET PruneNames :
       /\ registry \in { r \in [present -> {FreshRow, IdleRow, AgedRow, ExactRow}] :
                           \A n \in present : r[n] \in LeftPruneRows(n) }
       /\ docker = [n \in Names |->
                      IF n \in present
                      THEN [NoContainer EXCEPT !.exists = TRUE]
                      ELSE NoContainer]
       /\ firstInsert = [n \in Names |->
                           IF n \in present
                           THEN {[createdAtMs |-> registry[n].createdAtMs,
                                  image |-> registry[n].image]}
                           ELSE {}]

NextPrune ==
  \/ \E p \in Procs :
       \/ \E pruneCfg \in PruneConfigs : StartMaybePrune(p, pruneCfg)
       \/ ListRegistryEntries(p)
       \/ PruneRm(p)
       \/ PruneRemoveEntry(p)
       \/ Complete(p)
  \/ TimePasses

SpecPrune == InitPrune /\ [][NextPrune]_vars

\* The calls of maybePruneSandboxes made so far, in order.
Calls == DOMAIN history
Apart(i, j) == history[j].at - history[i].at
InPass(c) ==
  c.op = "maybePrune"
  /\ c.pc \in {"listRegistryEntries", "pruneRm", "pruneRemoveEntry"}

\* C9 as claimed: of any two maybePruneSandboxes calls made less than five
\* minutes apart exactly one runs a prune pass, the first, and the first call
\* in a process runs one.
C9_Original ==
  /\ \A i, j \in Calls :
       (i < j /\ Apart(i, j) < PRUNE_INTERVAL_MS) =>
         (history[i].ran /\ ~history[j].ran)
  /\ (history # <<>>) => history[1].ran

\* C9 as amended: of any two maybePruneSandboxes calls made less than five
\* minutes apart at most one runs a prune pass; a call runs one exactly when
\* no earlier call ran one less than five minutes before it, so the first
\* call in a process runs one; this includes a call that starts while an
\* earlier pass is still suspended on docker or the registry.
C9_AtMostOnePassPerWindow ==
  /\ \A i, j \in Calls :
       (i < j /\ Apart(i, j) < PRUNE_INTERVAL_MS) =>
         ~(history[i].ran /\ history[j].ran)
  /\ \A j \in Calls :
       history[j].ran <=>
         (\A i \in Calls :
            (i < j /\ history[i].ran) => Apart(i, j) >= PRUNE_INTERVAL_MS)
  /\ (history # <<>>) => history[1].ran

\* a call made while an earlier pass is suspended returned without a pass
C9_Witness ==
  \E p, q \in Procs :
    /\ InPass(call[p])
    /\ call[q].op = "maybePrune" /\ call[q].pc = "returned"
    /\ call[q].seq > call[p].seq
    /\ call[q].now > call[p].now
    /\ ~call[q].ran

\* C10: maybePruneSandboxes never raises; when the pass fails the error is
\* logged and swallowed, lastPruneAtMs has advanced to the time of the call
\* before the pass, and a call made less than five minutes after the failed
\* one runs no pass.
C10_PruneFailureSwallowed ==
  /\ \A p \in Procs :
       LET c == call[p] IN
       c.op = "maybePrune" =>
         /\ c.pc # "raised"
         /\ c.ran => lastPruneAtMs >= c.now
         /\ c.warned => (c.pc = "returned" /\ c.ran)
  /\ \A p, q \in Procs :
       LET c == call[p]
           d == call[q]
       IN
       ( /\ c.op = "maybePrune" /\ c.warned
         /\ d.op = "maybePrune" /\ d.seq > c.seq
         /\ d.now - c.now < PRUNE_INTERVAL_MS ) => ~d.ran

\* a pass failed, and a later call inside the window returned without a pass
C10_Witness ==
  \E p, q \in Procs :
    LET c == call[p]
        d == call[q]
    IN
    /\ c.op = "maybePrune" /\ c.warned /\ c.pc = "returned"
    /\ lastPruneAtMs = c.now
    /\ d.op = "maybePrune" /\ d.pc = "returned"
    /\ d.seq > c.seq /\ d.now > c.now
    /\ d.now - c.now < PRUNE_INTERVAL_MS
    /\ ~d.ran

\* The eviction rule of a prune pass.
EvictionRule(pruneCfg, now, entry) ==
  \/ pruneCfg.idleHours > 0
     /\ now - entry.lastUsedAtMs > pruneCfg.idleHours * HOUR_MS
  \/ pruneCfg.maxAgeDays > 0
     /\ now - entry.createdAtMs > pruneCfg.maxAgeDays * DAY_MS

SnapshotNames(c) == { c.snapshot[i].containerName : i \in DOMAIN c.snapshot }

\* C11: a prune pass removes a registry entry only if idleHours > 0 and the
\* entry has been idle for more than idleHours hours, or maxAgeDays > 0 and
\* it is older than maxAgeDays days; every other entry is left unchanged, an
\* entry exactly at a threshold is not evicted, with both thresholds 0
\* nothing is removed, and a pass that runs to its end has removed every
\* entry of its listing that satisfies the rule.
C11_EvictionRule ==
  [][ /\ \A n \in DOMAIN registry :
           (n \notin DOMAIN registry' \/ registry'[n] # registry[n]) =>
             \E p \in Procs :
               /\ call[p].pc = "pruneRemoveEntry"
               /\ Head(call[p].entries).containerName = n
               /\ n \notin DOMAIN registry'
               /\ EvictionRule(call[p].pruneCfg, call[p].now,
                               Head(call[p].entries))
      /\ \A p \in Procs :
           ( /\ call'[p].op = "maybePrune" /\ call'[p].ran
             /\ call'[p].pc = "returned" /\ ~call'[p].warned ) =>
               \A i \in DOMAIN call'[p].snapshot :
                 LET e == call'[p].snapshot[i] IN
                 /\ EvictionRule(call'[p].pruneCfg, call'[p].now, e)
                      <=> e.containerName \in call'[p].removed
                 /\ e.containerName \in call'[p].removed
                      => e.containerName \notin DOMAIN registry'
      /\ \A p \in Procs :
           ( call'[p].op = "maybePrune"
             /\ call'[p].pruneCfg.idleHours = 0
             /\ call'[p].pruneCfg.maxAgeDays = 0 ) =>
               ( /\ call'[p].removed = {}
                 /\ call'[p].pc \notin {"pruneRm", "pruneRemoveEntry"} ) ]_vars

\* a pass with both thresholds set ended having removed an idle entry and
\* kept an entry exactly at both thresholds
C11_Witness ==
  \E p \in Procs :
    LET c == call[p] IN
    /\ c.op = "maybePrune" /\ c.ran /\ c.pc = "returned" /\ ~c.warned
    /\ c.pruneCfg.idleHours = 1 /\ c.pruneCfg.maxAgeDays = 1
    /\ Len(c.snapshot) = 2
    /\ c.removed = {<<"o", "l", "d">>}
    /\ HasRow(TheName)
    /\ c.now - registry[TheName].lastUsedAtMs = HOUR_MS
    /\ c.now - registry[TheName].createdAtMs = DAY_MS

\* C12: for every entry a prune pass decides to evict, removeRegistryEntry
\* is called and removes the registry row also when docker rm -f for that
\* container failed, so the row of a container that no longer exists is
\* reclaimed.
C12_RowRemovedDespiteDockerFailure ==
  [][ \A p \in Procs :
        /\ call[p].pc = "pruneRm" =>
             ( call'[p] = call[p]
               \/ ( /\ call'[p].pc = "pruneRemoveEntry"
                    /\ call'[p].entries = call[p].entries ) )
        /\ ( /\ call[p].pc = "pruneRemoveEntry"
             /\ call'[p] # call[p]
             /\ ~call'[p].warned ) =>
               /\ Head(call[p].entries).containerName \notin DOMAIN registry'
               /\ Head(call[p].entries).containerName \in call'[p].removed
        /\ ( call'[p].op = "maybePrune" /\ call'[p].pc = "returned"
             /\ ~call'[p].warned ) =>
               call'[p].rmFailed \subseteq call'[p].removed ]_vars

\* docker rm -f failed for an evicted entry whose row is gone all the same
C12_Witness ==
  \E p \in Procs :
    LET c == call[p] IN
    /\ c.op = "maybePrune" /\ c.pc = "returned" /\ ~c.warned
    /\ \E n \in c.rmFailed : n \in c.removed /\ ~HasRow(n)

\* --------------------------------------------------------- plugin lifecycle
\* index.ts plugin.init / plugin.shutdown, sandbox-migrate.ts and
\* prune.ts pruneAllSandboxes.

\* Mutant: plugin.shutdown lets the error of pruneAllSandboxes through.
ShutdownCaught_Rethrows(c) == [c EXCEPT !.pc = "raised", !.error = "pruneAll"]

\* index.ts lines 102-106: the catch of plugin.shutdown.
ShutdownCaught(c) == [c EXCEPT !.pc = "returned", !.swallowed = TRUE]

\* An error leaves pruneAllSandboxes (its listing is outside the try).
PruneAllRaised(c) ==
  IF c.op = "shutdown" THEN ShutdownCaught(c) ELSE Raise(c, "pruneAll")

\* prune.ts lines 103-113: the loop over the listed entries; return pruned.
PruneAllLoop(c, entries) ==
  IF entries = <<>> THEN [c EXCEPT !.entries = <<>>, !.pc = "returned"]
  ELSE [c EXCEPT !.entries = entries, !.pc = "pruneAllRm"]

\* Mutant: an entry whose removal failed is counted too.
AfterPruneAllRemove_CountsFailures(c, ok) ==
  PruneAllLoop([c EXCEPT !.pruned = @ + 1,
                         !.removed = IF ok
                                     THEN @ \cup {Head(c.entries).containerName}
                                     ELSE @,
                         !.failures = IF ok THEN @ ELSE @ + 1],
               Tail(c.entries))

\* prune.ts lines 106-110: pruned++ after removeRegistryEntry; its error is
\* caught and the loop goes on.
AfterPruneAllRemove(c, ok) ==
  PruneAllLoop([c EXCEPT !.pruned = IF ok THEN @ + 1 ELSE @,
                         !.removed = IF ok
                                     THEN @ \cup {Head(c.entries).containerName}
                                     ELSE @,
                         !.failures = IF ok THEN @ ELSE @ + 1],
               Tail(c.entries))

\* sandbox-migrate.ts lines 18-31: no file, a file JSON.parse rejects (the
\* error propagates), or the loop over parsed.entries.
MigrateStart(c, h) ==
  IF ~h.legacy.exists THEN [c EXCEPT !.pc = "returned"]
  ELSE IF ~h.legacy.parses THEN MigrateRaised(c, "parse")
  ELSE MigrateLoop(c, h.legacy.entries)

\* plugin.init, index.ts lines 69-81: setRuntime, then initSandboxStorage
\* (sandbox-repository.ts lines 124-129), then the migration.
StartInit(p) ==
  LET h == [setRuntime(host, PluginDeps) EXCEPT !.calls = @ + 1]
      c == [IdleCall EXCEPT !.op = "init", !.regBefore = registry,
                            !.file = host.legacy,
                            !.extBefore = host.extension]
  IN
  /\ call[p].pc = "idle"
  /\ host.calls < MaxCalls
  /\ \E ok \in BOOLEAN :
       LET c2 == IF h.initialized THEN RenameOutcome(MigrateStart(c, h), ok)
                 ELSE [c EXCEPT !.pc = "initStorage"]
       IN Set(p, c2) /\ host' = HostAfter(c2, h)
  /\ UNCHANGED <<clock, ticks, docker, images, registry, lastPruneAtMs,
                 skipped, firstInsert, history>>

\* sandbox-repository.ts lines 127-128: storage.register resolves, the
\* schema is registered once more and initialized becomes true, or it
\* rejects.
InitStorage(p) ==
  LET c == call[p]
      h == [host EXCEPT !.initialized = TRUE, !.registered = @ + 1]
  IN
  /\ c.pc = "initStorage"
  /\ \/ \E ok \in BOOLEAN :
          LET c2 == IF c.op = "init"
                    THEN RenameOutcome(MigrateStart(c, h), ok)
                    ELSE IF c.op = "updateRegistry"
                         THEN [c EXCEPT !.pc = "updateRegistry"]
                         ELSE [c EXCEPT !.pc = "pruneAllList"]
          IN Set(p, c2) /\ host' = HostAfter(c2, h)
     \/ /\ Set(p, IF c.op \in {"init", "updateRegistry"}
                  THEN Raise(c, "register")
                  ELSE PruneAllRaised(c))
        /\ UNCHANGED host
  /\ UNCHANGED <<clock, ticks, docker, images, registry, lastPruneAtMs,
                 skipped, firstInsert, history>>

\* sandbox-migrate.ts line 38: updateRegistrySQL rejects (findById, insert or
\* update fails in the store); the catch of the migration throws again.
MigrateUpsertFails(p) ==
  LET c == call[p] IN
  /\ c.op = "init"
  /\ c.pc \in {"updateRegistry", "repoInsert", "repoUpdate", "repoUpdateRetry"}
  /\ Set(p, MigrateRaised(c, "upsert"))
  /\ UNCHANGED <<host, clock, ticks, docker, images, registry, lastPruneAtMs,
                 skipped, firstInsert, history>>

\* pruneAllSandboxes (prune.ts line 100), called directly or by
\* plugin.shutdown (index.ts line 103): listRegistryEntries starts with
\* initSandboxStorage, whose getStorage throws before plugin.init.
StartPruneAll(p, op) ==
  LET c == [IdleCall EXCEPT !.op = op, !.regBefore = registry] IN
  /\ call[p].pc = "idle"
  /\ host.calls < MaxCalls
  /\ host' = [host EXCEPT !.calls = @ + 1]
  /\ Set(p, IF host.initialized THEN [c EXCEPT !.pc = "pruneAllList"]
            ELSE IF ~host.storage THEN PruneAllRaised(c)
            ELSE [c EXCEPT !.pc = "initStorage"])
  /\ UNCHANGED <<clock, ticks, docker, images, registry, lastPruneAtMs,
                 skipped, firstInsert, history>>

\* prune.ts line 100: the listing resolves, or the store fails.
PruneAllList(p) ==
  LET c == call[p] IN
  /\ c.pc = "pruneAllList"
  /\ \/ \E q \in Snapshots :
          Set(p, PruneAllLoop([c EXCEPT !.snapshot = SnapshotOf(q)],
                              SnapshotOf(q)))
     \/ Set(p, PruneAllRaised(c))
  /\ UNCHANGED <<host, clock, ticks, docker, images, registry, lastPruneAtMs,
                 skipped, firstInsert, history>>

\* prune.ts line 105: docker rm -f with allowFailure, which never rejects.
PruneAllRm(p) ==
  LET c == call[p]
      name == Head(c.entries).containerName
  IN
  /\ c.pc = "pruneAllRm"
  /\ \E ok \in BOOLEAN :
       /\ docker' = IF ok /\ docker[name].exists
                    THEN [docker EXCEPT ![name] = NoContainer]
                    ELSE docker
       /\ Set(p, [c EXCEPT !.pc = "pruneAllRemove",
                           !.rmFailed = IF ok THEN @ ELSE @ \cup {name}])
  /\ UNCHANGED <<host, clock, ticks, images, registry, lastPruneAtMs,
                 skipped, firstInsert, history>>

\* prune.ts lines 106-110: removeRegistryEntry deletes the row, or fails.
PruneAllRemove(p) ==
  LET c == call[p]
      name == Head(c.entries).containerName
  IN
  /\ c.pc = "pruneAllRemove"
  /\ \/ /\ registry' = DeleteRow(name)
        /\ firstInsert' = [firstInsert EXCEPT ![name] = {}]
        /\ Set(p, AfterPruneAllRemove(c, TRUE))
     \/ /\ Set(p, AfterPruneAllRemove(c, FALSE))
        /\ UNCHANGED <<registry, firstInsert>>
  /\ UNCHANGED <<host, clock, ticks, docker, images, lastPruneAtMs,
                 skipped, history>>

\* The elements of the legacy file's entries array: registry records, and
\* elements the schema rejects (here one without the id field).
LegacyRecord(name, createdAtMs) ==
  [id |-> name, containerName |-> name, sessionKey |-> <<"s", "1">>,
   createdAtMs |-> createdAtMs, lastUsedAtMs |-> createdAtMs,
   image |-> CUSTOM_IMAGE, configHash |-> NoHash]
Malformed(name) ==
  [containerName |-> name, sessionKey |-> <<"s", "1">>,
   createdAtMs |-> StartMs - DAY_MS, lastUsedAtMs |-> StartMs - DAY_MS,
   image |-> CUSTOM_IMAGE]
LegacyName == <<"l", "e", "g">>

LegacyFiles ==
  { NoFile,
    [exists |-> TRUE, parses |-> FALSE, entries |-> <<>>],
    [exists |-> TRUE, parses |-> TRUE, entries |-> <<>>],
    [exists |-> TRUE, parses |-> TRUE,
     entries |-> << LegacyRecord(TheName, StartMs - DAY_MS),
                    Malformed(LegacyName),
                    LegacyRecord(<<"o", "l", "d">>, StartMs - HOUR_MS) >>],
    [exists |-> TRUE, parses |-> TRUE,
     entries |-> << Malformed(TheName) >>] }

\* Rows an earlier run of the process left in the store.
LeftStores ==
  { <<>>,
    (<<"o", "l", "d">> :> IdleRow),
    (TheName :> FreshRow) @@ (<<"o", "l", "d">> :> IdleRow) }

InitPlugin ==
  /\ clock = StartMs
  /\ ticks = 0
  /\ call = [p \in Procs |-> IdleCall]
  /\ lastPruneAtMs = 0
  /\ history = <<>>
  /\ skipped = <<>>
  /\ images = {}
  /\ \E f \in LegacyFiles :
       host = [storage |-> FALSE, initialized |-> FALSE, legacy |-> f,
               backup |-> NoFile, extension |-> FALSE, calls |-> 0,
               sandbox |-> RunningHost.sandbox, dirs |-> {},
               runtime |-> NoRuntime, injected |-> {}, registered |-> 0]
  /\ registry \in LeftStores
  /\ docker = [n \in Names |->
                 IF n \in DOMAIN registry
                 THEN [NoContainer EXCEPT !.exists = TRUE]
                 ELSE NoContainer]
  /\ firstInsert = [n \in Names |->
                      IF n \in DOMAIN registry
                      THEN {[createdAtMs |-> registry[n].createdAtMs,
                             image |-> registry[n].image]}
                      ELSE {}]

\* plugin.init, plugin.shutdown and pruneAllSandboxes, one call at a time.
NextPlugin ==
  \/ StartInit("p1")
  \/ InitStorage("p1")
  \/ RegistryStep("p1")
  \/ MigrateUpsertFails("p1")
  \/ \E op \in {"shutdown", "pruneAll"} : StartPruneAll("p1", op)
  \/ PruneAllList("p1")
  \/ PruneAllRm("p1")
  \/ PruneAllRemove("p1")
  \/ Complete("p1")

SpecPlugin == InitPlugin /\ [][NextPlugin]_vars

\* C13: pruneAllSandboxes attempts the removal of every registry row,
\* whatever its idle time and age, goes on after an entry whose removal
\* failed, and returns the number of rows it removed from the registry; when
\* no repository operation failed, no row that existed at its start is left.
C13_PruneAllRemovesAndCounts ==
  \A p \in Procs :
    LET c == call[p] IN
    (c.op = "pruneAll" /\ c.pc = "returned") =>
      /\ SnapshotNames(c) = DOMAIN c.regBefore
      /\ c.pruned + c.failures = Len(c.snapshot)
      /\ c.pruned = Cardinality(c.removed)
      /\ c.pruned = Cardinality(DOMAIN c.regBefore)
                      - Cardinality(DOMAIN registry)
      /\ \A n \in c.removed : ~HasRow(n)
      /\ c.failures = 0 => \A n \in DOMAIN c.regBefore : ~HasRow(n)

\* the removal of the first entry failed; the second, a row used just now,
\* was removed and is the one counted
C13_Witness ==
  \E p \in Procs :
    LET c == call[p] IN
    /\ c.op = "pruneAll" /\ c.pc = "returned"
    /\ Len(c.snapshot) = 2
    /\ c.snapshot[2].containerName = TheName
    /\ c.regBefore[TheName] = FreshRow
    /\ c.failures = 1 /\ c.pruned = 1
    /\ c.removed = {TheName}
    /\ HasRow(c.snapshot[1].containerName)

\* C14: plugin.shutdown never raises, before plugin.init, after it and when
\* called again: every error of pruneAllSandboxes, that of the storage not
\* being initialized included, is swallowed.
C14_ShutdownNeverRaises ==
  \A p \in Procs :
    LET c == call[p] IN
    c.op = "shutdown" =>
      /\ c.pc # "raised"
      /\ c.pc \in {"initStorage", "pruneAllList", "pruneAllRm",
                   "pruneAllRemove", "returned"}
      /\ (~host.storage) => (c.pc = "returned" /\ c.swallowed)

\* a second call of shutdown before init returned, the error swallowed
C14_Witness ==
  \E p \in Procs :
    LET c == call[p] IN
    /\ c.op = "shutdown" /\ c.pc = "returned" /\ c.swallowed
    /\ ~host.storage
    /\ host.calls = 2

ValidIndexes(elements) ==
  { i \in DOMAIN elements : SchemaValid(elements[i]) }

\* C20: when the legacy registry file exists at init, the migration upserts
\* every schema-valid element of its entries array, skips every invalid one
\* and then renames the file to .backup; an init that finds no legacy file
\* imports nothing, and once the file is renamed no legacy file exists again.
C20_MigratedOnce ==
  /\ \A p \in Procs :
       LET c == call[p]
           elements == c.file.entries
       IN
       (c.op = "init" /\ c.pc = "returned") =>
         IF c.file.exists
         THEN /\ c.successCount = Cardinality(ValidIndexes(elements))
              /\ c.skipCount = Len(elements) - c.successCount
              /\ \A i \in ValidIndexes(elements) :
                   LET e == elements[i] IN
                   /\ HasRow(e.containerName)
                   /\ registry[e.containerName].lastUsedAtMs = e.lastUsedAtMs
                   /\ registry[e.containerName].createdAtMs =
                        IF e.containerName \in DOMAIN c.regBefore
                        THEN c.regBefore[e.containerName].createdAtMs
                        ELSE e.createdAtMs
              /\ \A n \in DOMAIN registry :
                   \/ n \in DOMAIN c.regBefore
                   \/ \E i \in ValidIndexes(elements) :
                        elements[i].containerName = n
              /\ ~host.legacy.exists
              /\ host.backup = c.file
         ELSE /\ registry = c.regBefore
              /\ c.successCount = 0
              /\ ~host.legacy.exists
  /\ host.backup.exists => ~host.legacy.exists

\* an init after the migration found no legacy file and imported nothing;
\* the rows of the valid elements are there, that of the invalid one is not
C20_Witness ==
  \E p \in Procs :
    LET c == call[p] IN
    /\ c.op = "init" /\ c.pc = "returned"
    /\ ~c.file.exists
    /\ host.backup.exists /\ Len(host.backup.entries) = 3
    /\ registry = c.regBefore
    /\ HasRow(TheName) /\ registry[TheName].image = CUSTOM_IMAGE
    /\ HasRow(<<"o", "l", "d">>)
    /\ ~HasRow(LegacyName)

MigrateErrors == {"parse", "upsert", "rename"}

\* C21: when the migration raises (a file JSON.parse rejects, a failing
\* upsert, a failing rename), the error leaves plugin.init: that init does
\* not register the "sandbox" extension and the legacy file stays in place,
\* not renamed to .backup.
C21_MigrationFailureAbortsInit ==
  \A p \in Procs :
    LET c == call[p] IN
    (c.op = "init" /\ c.error \in MigrateErrors) =>
      /\ c.pc = "raised"
      /\ host.extension = c.extBefore
      /\ ~host.extension
      /\ c.file.exists
      /\ host.legacy = c.file
      /\ ~host.backup.exists

\* the upsert of the third element failed after the first was imported and
\* the second skipped: init raised, the file is where it was
C21_Witness ==
  \E p \in Procs :
    LET c == call[p] IN
    /\ c.op = "init" /\ c.pc = "raised" /\ c.error = "upsert"
    /\ c.successCount = 1 /\ c.skipCount = 1
    /\ TheName \notin DOMAIN c.regBefore /\ HasRow(TheName)
    /\ host.legacy = c.file /\ Len(host.legacy.entries) = 3
    /\ ~host.extension

\* C30: the "sandbox" extension that plugin.init registered is unregistered
\* by plugin.shutdown: once shutdown has returned, the extension is no longer
\* registered with the host.
C30_ShutdownUnregisters ==
  \A p \in Procs :
    LET c == call[p] IN
    (c.op = "shutdown" /\ c.pc = "returned") => ~host.extension

\* ------------------------------------------------------ config resolution
\* config.ts resolveSandboxConfig and shouldSandbox.

\* A key the host's sandbox configuration does not set.
Undefined == "undefined"

\* Mutant: the host's mode is kept when it is set.
ResolveMode_HostWins(hostMode, trustLevel) ==
  IF hostMode # Undefined THEN hostMode
  ELSE IF trustLevel \in {"untrusted", "semi-trusted"} THEN "all" ELSE "off"

\* config.ts lines 103-108.
ResolveMode(hostMode, trustLevel) ==
  IF trustLevel \in {"untrusted", "semi-trusted"} THEN "all"
  ELSE IF hostMode # Undefined THEN hostMode ELSE "off"

\* Mutant: the host's workspaceAccess is kept when it is set.
ResolveWorkspaceAccess_HostWins(hostAccess, trustLevel) ==
  IF hostAccess # Undefined THEN hostAccess
  ELSE IF trustLevel = "semi-trusted" THEN "ro" ELSE "none"

\* config.ts lines 114-120.
ResolveWorkspaceAccess(hostAccess, trustLevel) ==
  IF trustLevel = "untrusted" THEN "none"
  ELSE IF trustLevel = "semi-trusted" THEN "ro"
  ELSE IF hostAccess # Undefined THEN hostAccess ELSE "none"

\* config.ts lines 100-138 (mode and workspaceAccess of the result).
resolveSandboxConfig(hostCfg, trustLevel) ==
  [mode |-> ResolveMode(hostCfg.mode, trustLevel),
   workspaceAccess |-> ResolveWorkspaceAccess(hostCfg.workspaceAccess,
                                              trustLevel)]

\* config.ts lines 143-156.
shouldSandbox(hostCfg, sessionName, trustLevel) ==
  LET cfg == resolveSandboxConfig(hostCfg, trustLevel) IN
  IF cfg.mode = "off" THEN FALSE
  ELSE IF cfg.mode = "all" THEN TRUE
  ELSE sessionName # "main"

HostConfigs ==
  [mode : {Undefined, "off", "non-main", "all"},
   workspaceAccess : {Undefined, "none", "ro", "rw"}]
TrustLevels == {Undefined, "untrusted", "semi-trusted", "trusted", "owner"}
SessionNames == {"main", "s1"}

CallResolveSandboxConfig(p, hostCfg, sessionName, trustLevel) ==
  /\ call[p].pc = "idle"
  /\ Set(p, [IdleCall EXCEPT
               !.op = "resolveSandboxConfig", !.pc = "done",
               !.hostCfg = hostCfg, !.sessionName = sessionName,
               !.trustLevel = trustLevel,
               !.resolved = resolveSandboxConfig(hostCfg, trustLevel)])
  /\ UNCHANGED <<host, clock, ticks, docker, images, registry, lastPruneAtMs,
                 skipped, firstInsert, history>>

CallShouldSandbox(p, hostCfg, sessionName, trustLevel) ==
  /\ call[p].pc = "idle"
  /\ Set(p, [IdleCall EXCEPT
               !.op = "shouldSandbox", !.pc = "done",
               !.hostCfg = hostCfg, !.sessionName = sessionName,
               !.trustLevel = trustLevel,
               !.resolved = resolveSandboxConfig(hostCfg, trustLevel),
               !.should = shouldSandbox(hostCfg, sessionName, trustLevel)])
  /\ UNCHANGED <<host, clock, ticks, docker, images, registry, lastPruneAtMs,
                 skipped, firstInsert, history>>

InitConfig ==
  /\ InitCommon
  /\ skipped = <<>>
  /\ images = {}
  /\ docker = [n \in Names |-> NoContainer]
  /\ registry = <<>>
  /\ firstInsert = [n \in Names |-> {}]

NextConfig ==
  \/ \E hostCfg \in HostConfigs, n \in SessionNames, t \in TrustLevels :
       \/ CallResolveSandboxConfig("p1", hostCfg, n, t)
       \/ CallShouldSandbox("p1", hostCfg, n, t)
  \/ Complete("p1")

SpecConfig == InitConfig /\ [][NextConfig]_vars

\* C15: for every host configuration a session with trust level untrusted
\* resolves to workspaceAccess none and one with semi-trusted to ro; the
\* host's workspaceAccess applies to the other trust levels only, and is
\* none when the host sets none.
C15_TrustDecidesWorkspaceAccess ==
  \A p \in Procs :
    LET c == call[p] IN
    (c.op = "resolveSandboxConfig" /\ c.pc = "done") =>
      c.resolved.workspaceAccess =
        CASE c.trustLevel = "untrusted" -> "none"
          [] c.trustLevel = "semi-trusted" -> "ro"
          [] OTHER -> IF c.hostCfg.workspaceAccess = Undefined THEN "none"
                      ELSE c.hostCfg.workspaceAccess

\* an untrusted session on a host that sets rw resolved to none
C15_Witness ==
  \E p \in Procs :
    LET c == call[p] IN
    /\ c.op = "resolveSandboxConfig" /\ c.pc = "done"
    /\ c.trustLevel = "untrusted"
    /\ c.hostCfg.workspaceAccess = "rw"
    /\ c.resolved.workspaceAccess = "none"

\* The mode shouldSandbox decides on.
EffectiveMode(hostMode, trustLevel) ==
  CASE trustLevel = "untrusted" -> "all"
    [] trustLevel = "semi-trusted" -> "all"
    [] hostMode = Undefined -> "off"
    [] OTHER -> hostMode

\* C16: shouldSandbox is false when the effective mode is off, true when it
\* is all and (sessionName # "main") when it is non-main, and trust level
\* untrusted or semi-trusted makes the effective mode all for every session
\* name and host mode, session main and host mode off included.
C16_ShouldSandbox ==
  \A p \in Procs :
    LET c == call[p]
        mode == EffectiveMode(c.hostCfg.mode, c.trustLevel)
    IN
    (c.op = "shouldSandbox" /\ c.pc = "done") =>
      /\ c.resolved.mode = mode
      /\ c.should = CASE mode = "off" -> FALSE
                      [] mode = "all" -> TRUE
                      [] OTHER -> c.sessionName # "main"

\* session main of a semi-trusted source is sandboxed on a host with mode off
C16_Witness ==
  \E p \in Procs :
    LET c == call[p] IN
    /\ c.op = "shouldSandbox" /\ c.pc = "done"
    /\ c.sessionName = "main"
    /\ c.hostCfg.mode = "off"
    /\ c.trustLevel = "semi-trusted"
    /\ c.should

\* ------------------------------------------------- resolveSandboxContext
\* context.ts resolveSandboxContext.  The function and the function it awaits
\* are two frames of `call`: the caller's frame waits while the callee's runs.

DEFAULT_SANDBOX_WORKSPACE_ROOT == "~/.wopr/sandboxes"
DEFAULT_SANDBOX_IDLE_HOURS == 24
DEFAULT_SANDBOX_MAX_AGE_DAYS == 7

\* The characters of a session name.
CharsOf(sessionName) ==
  IF sessionName = "main" THEN <<"m", "a", "i", "n">> ELSE <<"s", "1">>

\* shared.ts resolveSandboxWorkspaceDir: path.join(root, slug).
resolveSandboxWorkspaceDir(root, sessionKey) ==
  root \o "/" \o Join(slugifySessionKey(sessionKey))

\* context.ts lines 314-316.
ContextWorkspaceDir(cfg, sessionName) ==
  IF cfg.scope = "shared" THEN DEFAULT_SANDBOX_WORKSPACE_ROOT
  ELSE resolveSandboxWorkspaceDir(
         DEFAULT_SANDBOX_WORKSPACE_ROOT,
         resolveSandboxScopeKey(cfg.scope, CharsOf(sessionName)))

\* config.ts lines 122-137: the configuration resolveSandboxConfig returns
\* for a host that sets mode and workspaceAccess only, and a setup command.
ContextConfig(hostCfg, trustLevel) ==
  MkConfig(DEFAULT_SANDBOX_IMAGE,
           resolveSandboxConfig(hostCfg, trustLevel).workspaceAccess,
           GoodSetup)
ContextPruneConfig ==
  [idleHours |-> DEFAULT_SANDBOX_IDLE_HOURS,
   maxAgeDays |-> DEFAULT_SANDBOX_MAX_AGE_DAYS]

\* Mutant: the prune runs before the session is found not to be sandboxed.
ContextEntry_PrunesFirst(c) == [c EXCEPT !.pc = "callPrune"]

\* context.ts lines 304-311: null for a session that is not sandboxed, else
\* on to maybePruneSandboxes.
ContextEntry(c) ==
  IF ~c.should THEN [c EXCEPT !.pc = "returned", !.ctx = {}]
  ELSE [c EXCEPT !.pc = "callPrune"]

\* context.ts lines 301-311.
StartResolveSandboxContext(p, sessionName, trustLevel) ==
  LET hostCfg == host.sandbox
      cfg == ContextConfig(hostCfg, trustLevel)
  IN
  /\ AllIdle
  /\ host.calls < MaxContextCalls
  /\ Len(history) < MaxCalls
  /\ host' = [host EXCEPT !.calls = @ + 1]
  /\ Set(p, ContextEntry(
              [IdleCall EXCEPT
                 !.op = "context", !.hostCfg = hostCfg,
                 !.sessionName = sessionName, !.trustLevel = trustLevel,
                 !.sessionKey = CharsOf(sessionName),
                 !.resolved = resolveSandboxConfig(hostCfg, trustLevel),
                 !.should = shouldSandbox(hostCfg, sessionName, trustLevel),
                 !.cfg = cfg, !.pruneCfg = ContextPruneConfig,
                 !.workspaceDir = ContextWorkspaceDir(cfg, sessionName)]))
  /\ UNCHANGED <<clock, ticks, docker, images, registry, lastPruneAtMs,
                 skipped, firstInsert, history>>

\* context.ts line 311: await maybePruneSandboxes(cfg).
ContextCallPrune(p, q) ==
  /\ call[p].op = "context" /\ call[p].pc = "callPrune"
  /\ StartMaybePrune(q, call[p].pruneCfg)

\* context.ts lines 314-319: maybePruneSandboxes has returned; the workspace
\* directory is made when it does not exist (mkdirSync may throw).
ContextAfterPrune(p, q) ==
  LET c == call[p] IN
  /\ c.op = "context" /\ c.pc = "callPrune"
  /\ call[q].op = "maybePrune" /\ call[q].pc = "returned"
  /\ \/ /\ host' = [host EXCEPT !.dirs = @ \cup {c.workspaceDir}]
        /\ call' = [call EXCEPT ![p] = [c EXCEPT !.pc = "callEnsure"],
                                ![q] = IdleCall]
     \/ /\ c.workspaceDir \notin host.dirs
        /\ call' = [call EXCEPT ![p] = Raise(c, "mkdir"), ![q] = IdleCall]
        /\ UNCHANGED host
  /\ UNCHANGED <<clock, ticks, docker, images, registry, lastPruneAtMs,
                 skipped, firstInsert, history>>

\* context.ts lines 322-326: await ensureSandboxContainer(...).
ContextCallEnsure(p, q) ==
  /\ call[p].op = "context" /\ call[p].pc = "callEnsure"
  /\ StartEnsure(q, call[p].sessionKey, call[p].workspaceDir, call[p].cfg)

\* context.ts lines 322-339: ensureSandboxContainer has returned the
\* container name, or its error leaves resolveSandboxContext.
ContextAfterEnsure(p, q) ==
  LET c == call[p]
      d == call[q]
  IN
  /\ c.op = "context" /\ c.pc = "callEnsure"
  /\ d.op = "ensure" /\ d.pc \in {"returned", "raised"}
  /\ call' = [call EXCEPT
                ![p] = IF d.pc = "raised" THEN Raise(c, d.error)
                       ELSE [c EXCEPT
                               !.pc = "returned",
                               !.ctx = {[enabled |-> TRUE,
                                         sessionKey |-> c.sessionName,
                                         workspaceDir |-> c.workspaceDir,
                                         workspaceAccess |->
                                           c.cfg.workspaceAccess,
                                         containerName |-> d.result]}],
                ![q] = IdleCall]
  /\ UNCHANGED <<host, clock, ticks, docker, images, registry, lastPruneAtMs,
                 skipped, firstInsert, history>>

\* The host's sandbox configuration (getMainConfig().sandbox).
ContextHostConfigs ==
  [mode : {Undefined, "off", "non-main", "all"}, workspaceAccess : {Undefined}]
ContextTrustLevels == {Undefined, "semi-trusted"}

\* A row an earlier run left, idle for more than a day.
StaleRow ==
  [FreshRow EXCEPT !.createdAtMs = StartMs - DAY_MS - HOUR_MS,
                   !.lastUsedAtMs = StartMs - DAY_MS - HOUR_MS]

InitContext ==
  /\ clock = StartMs
  /\ ticks = 0
  /\ call = [p \in Procs |-> IdleCall]
  /\ lastPruneAtMs = 0
  /\ history = <<>>
  /\ skipped = <<>>
  /\ images = {}
  /\ \E hostCfg \in ContextHostConfigs :
       host = [RunningHost EXCEPT !.sandbox = hostCfg]
  /\ registry = (<<"o", "l", "d">> :> StaleRow)
  /\ docker = [n \in Names |->
                 IF n \in DOMAIN registry
                 THEN [NoContainer EXCEPT !.exists = TRUE]
                 ELSE NoContainer]
  /\ firstInsert = [n \in Names |->
                      IF n \in DOMAIN registry
                      THEN {[createdAtMs |-> registry[n].createdAtMs,
                             image |-> registry[n].image]}
                      ELSE {}]

\* resolveSandboxContext, one call at a time: p2 is its frame, p1 the frame
\* of the function it awaits.
NextContext ==
  \/ \E sessionName \in SessionNames, trustLevel \in ContextTrustLevels :
       StartResolveSandboxContext("p2", sessionName, trustLevel)
  \/ ContextCallPrune("p2", "p1")
  \/ ListRegistryEntries("p1")
  \/ PruneRm("p1")
  \/ PruneRemoveEntry("p1")
  \/ ContextAfterPrune("p2", "p1")
  \/ ContextCallEnsure("p2", "p1")
  \/ EnsureStep("p1")
  \/ ContextAfterEnsure("p2", "p1")
  \/ Complete("p2")
  \/ Tick

SpecContext == InitContext /\ [][NextContext]_vars

\* C22: for a session that shouldSandbox rejects, resolveSandboxContext
\* returns null at once: it runs no prune pass (lastPruneAtMs is unchanged),
\* makes no workspace directory, invokes no docker command and writes nothing
\* to the registry.
C22_UnsandboxedReturnsNull ==
  [][ \A p \in Procs :
        (call[p].pc = "idle" /\ call'[p].op = "context"
           /\ ~shouldSandbox(host.sandbox, call'[p].sessionName,
                             call'[p].trustLevel)) =>
          /\ call'[p].pc = "returned" /\ call'[p].ctx = {}
          /\ \A q \in Procs \ {p} : call'[q] = call[q]
          /\ lastPruneAtMs' = lastPruneAtMs /\ history' = history
          /\ host'.dirs = host.dirs
          /\ docker' = docker /\ images' = images
          /\ registry' = registry ]_vars

\* the main session of a host in mode non-main got null although a prune
\* pass was due; the container, the row and the directory of the session
\* sandboxed before are all there is
C22_Witness ==
  \E p \in Procs :
    LET c == call[p] IN
    /\ c.op = "context" /\ c.pc = "returned" /\ c.ctx = {}
    /\ c.sessionName = "main" /\ host.sandbox.mode = "non-main"
    /\ clock - lastPruneAtMs >= PRUNE_INTERVAL_MS
    /\ lastPruneAtMs = StartMs
    /\ HasRow(ContainerNameOf(c.cfg, CharsOf("s1")))
    /\ ~HasRow(ContainerNameOf(c.cfg, CharsOf("main")))
    /\ host.dirs = {ContextWorkspaceDir(c.cfg, "s1")}

\* ------------------------------------------------------- container names
\* ensureSandboxContainer lines 272-276 over container prefixes, scopes and
\* session keys: two calls, the second made when the first has ended.

\* A prefix so long that prefix + 32 characters of slug fill the 63
\* characters of a name.
LongPrefix == [i \in 1..(MAX_CONTAINER_NAME - MAX_SLUG_BASE) |-> "p"]
ContainerPrefixes == { DEFAULT_SANDBOX_CONTAINER_PREFIX, LongPrefix }
Scopes == {"session", "shared"}

\* Session keys: plain, padded, blank, the default scope key, and two long
\* keys that differ after their 32nd character.
LongKey(last) == [i \in 1..MAX_SLUG_BASE |-> "a"] \o <<last>>
NamingKeys ==
  { <<"s", "1">>, <<" ", "s", "1", " ">>, <<" ">>, <<"m", "a", "i", "n">>,
    LongKey("b"), LongKey("c") }

NamingConfig(prefix, scope) ==
  [MkConfig(DEFAULT_SANDBOX_IMAGE, "none", GoodSetup) EXCEPT
     !.scope = scope, !.docker.containerPrefix = prefix]

NamingNames ==
  { ContainerNameOf(NamingConfig(prefix, scope), k) :
      prefix \in ContainerPrefixes, scope \in Scopes, k \in NamingKeys }
  \cup
  { ContainerNameOf(NamingConfig(prefix, "session"), k) :
      prefix \in ContainerPrefixes, k \in NamingKeys }

InitNaming ==
  /\ InitCommon
  /\ skipped = <<>>
  /\ images = {}
  /\ registry = <<>>
  /\ docker = [n \in NamingNames |-> NoContainer]
  /\ firstInsert = [n \in NamingNames |-> {}]

\* A call made when the call before it has returned or raised.
StartNextEnsure(p, q, sessionKey, workspaceDir, cfg) ==
  /\ call[q].op = "ensure" /\ call[q].pc \in {"returned", "raised"}
  /\ StartEnsure(p, sessionKey, workspaceDir, cfg)

NextNaming ==
  \/ \E prefix \in ContainerPrefixes, scope \in Scopes, k \in NamingKeys :
       StartEnsure("p1", k, "/ws/a", NamingConfig(prefix, scope))
  \/ EnsureStep("p1")
  \/ \E prefix \in ContainerPrefixes, scope \in Scopes, k \in NamingKeys,
        dir \in {"/ws/a", "/ws/b"} :
       StartNextEnsure("p2", "p1", k, dir, NamingConfig(prefix, scope))
  \/ EnsureStep("p2")

SpecNaming == InitNaming /\ [][NextNaming]_vars

SHARED == <<"s", "h", "a", "r", "e", "d">>
SameTriple(c, d) ==
  /\ c.cfg.docker.containerPrefix = d.cfg.docker.containerPrefix
  /\ c.cfg.scope = d.cfg.scope
  /\ c.sessionKey = d.sessionKey

\* C23: every container name ensureSandboxContainer inspects, creates,
\* records or returns has at most 63 characters and depends only on
\* (containerPrefix, scope, sessionKey): calls with the same triple use the
\* same name, and in shared scope the scope key is "shared" and the name does
\* not depend on the session key.
C23_NameBoundedAndDeterministic ==
  /\ \A p \in Procs :
       LET c == call[p] IN
       c.op = "ensure" =>
         /\ Len(c.name) <= MAX_CONTAINER_NAME
         /\ c.pc = "returned" => (c.result = c.name /\ HasRow(c.name))
         /\ c.cfg.scope = "shared" =>
              /\ c.scopeKey = SHARED
              /\ c.name = Slice(c.cfg.docker.containerPrefix \o SHARED,
                                MAX_CONTAINER_NAME)
  /\ \A n \in DOMAIN registry :
       /\ Len(n) <= MAX_CONTAINER_NAME
       /\ \E p \in Procs : call[p].op = "ensure" /\ call[p].name = n
  /\ \A n \in DOMAIN docker :
       docker[n].exists =>
         /\ Len(n) <= MAX_CONTAINER_NAME
         /\ \E p \in Procs : call[p].op = "ensure" /\ call[p].name = n
  /\ \A p, q \in Procs :
       LET c == call[p]
           d == call[q]
       IN
       (c.op = "ensure" /\ d.op = "ensure") =>
         /\ SameTriple(c, d) => c.name = d.name
         /\ ( c.cfg.scope = "shared" /\ d.cfg.scope = "shared"
              /\ c.cfg.docker.containerPrefix = d.cfg.docker.containerPrefix )
            => c.name = d.name

\* two calls in shared scope with different session keys and workspace
\* directories returned the same name, and one container and one row exist
C23_Witness ==
  LET c == call["p1"]
      d == call["p2"]
  IN
  /\ c.op = "ensure" /\ c.pc = "returned"
  /\ d.op = "ensure" /\ d.pc = "returned"
  /\ c.cfg.scope = "shared" /\ d.cfg.scope = "shared"
  /\ c.cfg.docker.containerPrefix = LongPrefix
  /\ d.cfg.docker.containerPrefix = LongPrefix
  /\ c.sessionKey = LongKey("b") /\ d.sessionKey = <<" ">>
  /\ c.workspaceDir # d.workspaceDir
  /\ c.result = d.result /\ Len(d.result) = Len(LongPrefix) + Len(SHARED)
  /\ DOMAIN registry = {d.result}
  /\ docker[d.result].exists

\* C24: in session scope two sessions whose trimmed session keys differ never
\* get the same container name, whatever the container prefix and the
\* session keys, blank ones included (one container per session); the hash
\* suffixes of distinct keys are distinct.
C24_DistinctSessionsDistinctNames ==
  \A p, q \in Procs :
    LET c == call[p]
        d == call[q]
    IN
    ( c.op = "ensure" /\ d.op = "ensure"
      /\ c.cfg.scope = "session" /\ d.cfg.scope = "session"
      /\ c.cfg.docker.containerPrefix = d.cfg.docker.containerPrefix
      /\ Trim(c.sessionKey) # Trim(d.sessionKey) )
    => c.name # d.name

\* -------------------------------------------------------------- tool policy
\* tool-policy.ts.  A pattern list is [isArray, items]: policy.allow and
\* policy.deny may be absent or not arrays.

\* Characters the regular expression's `.` does not match.
LineTerminators == {"\n"}

\* RegExp `^...$` built at lines 21-25: every character but `*` stands for
\* itself, `*` became `.*`.
RECURSIVE RegexTest(_, _)
RegexTest(pattern, name) ==
  IF pattern = <<>> THEN name = <<>>
  ELSE IF Head(pattern) = "*"
       THEN \/ RegexTest(Tail(pattern), name)
            \/ /\ name # <<>>
               /\ Head(name) \notin LineTerminators
               /\ RegexTest(pattern, Tail(name))
       ELSE /\ name # <<>>
            /\ Head(name) = Head(pattern)
            /\ RegexTest(Tail(pattern), Tail(name))

\* lines 11-26
compilePattern(pattern) ==
  LET normalized == ToLowerCase(Trim(pattern)) IN
  IF normalized = <<>> THEN [kind |-> "exact", value |-> <<>>]
  ELSE IF normalized = <<"*">> THEN [kind |-> "all", value |-> <<>>]
  ELSE IF ~HasChar(normalized, {"*"})
       THEN [kind |-> "exact", value |-> normalized]
       ELSE [kind |-> "regex", value |-> normalized]

KeptPattern(compiled) == compiled.kind # "exact" \/ compiled.value # <<>>

\* lines 28-33
compilePatterns(patterns) ==
  IF ~patterns.isArray THEN <<>>
  ELSE SelectSeq([i \in DOMAIN patterns.items |->
                    compilePattern(patterns.items[i])],
                 KeptPattern)

\* lines 37-46: one compiled pattern against the name.
MatchesPattern(name, compiled) ==
  \/ compiled.kind = "all"
  \/ compiled.kind = "exact" /\ name = compiled.value
  \/ compiled.kind = "regex" /\ RegexTest(compiled.value, name)

\* lines 35-49
RECURSIVE matchesAny(_, _)
matchesAny(name, patterns) ==
  IF patterns = <<>> THEN FALSE
  ELSE IF MatchesPattern(name, Head(patterns)) THEN TRUE
  ELSE matchesAny(name, Tail(patterns))

\* Mutant: the allow list is consulted before the deny list.
isToolAllowed_AllowFirst(policy, name) ==
  LET normalized == ToLowerCase(Trim(name))
      deny == compilePatterns(policy.deny)
      allow == compilePatterns(policy.allow)
  IN IF allow # <<>> /\ matchesAny(normalized, allow) THEN TRUE
     ELSE IF matchesAny(normalized, deny) THEN FALSE
     ELSE allow = <<>>

\* lines 54-70
isToolAllowed(policy, name) ==
  LET normalized == ToLowerCase(Trim(name))
      deny == compilePatterns(policy.deny)
      allow == compilePatterns(policy.allow)
  IN IF matchesAny(normalized, deny) THEN FALSE
     ELSE IF Len(allow) = 0 THEN TRUE
     ELSE matchesAny(normalized, allow)

\* Mutant: a denied tool is put in front of the denied list.
PushTool_DeniedInFront(lists, tool, ok) ==
  IF ok THEN [lists EXCEPT !.allowed = Append(@, tool)]
  ELSE [lists EXCEPT !.denied = <<tool>> \o @]

\* lines 129-133: allowed.push(tool) or denied.push(tool).
PushTool(lists, tool, ok) ==
  IF ok THEN [lists EXCEPT !.allowed = Append(@, tool)]
  ELSE [lists EXCEPT !.denied = Append(@, tool)]

\* lines 121-137: the loop over the tools, from the lists built so far.
RECURSIVE FilterLoop(_, _, _)
FilterLoop(tools, policy, lists) ==
  IF tools = <<>> THEN lists
  ELSE FilterLoop(Tail(tools), policy,
                  PushTool(lists, Head(tools),
                           isToolAllowed(policy, Head(tools))))

filterToolsByPolicy(tools, policy) ==
  FilterLoop(tools, policy, [allowed |-> <<>>, denied |-> <<>>])

CallIsToolAllowed(p, policy, name) ==
  /\ call[p].pc = "idle"
  /\ Set(p, [IdleCall EXCEPT !.op = "isToolAllowed", !.pc = "done",
                             !.policy = policy, !.tool = name,
                             !.verdict = isToolAllowed(policy, name)])
  /\ UNCHANGED <<host, clock, ticks, docker, images, registry, lastPruneAtMs,
                 skipped, firstInsert, history>>

CallFilterToolsByPolicy(p, tools, policy) ==
  /\ call[p].pc = "idle"
  /\ Set(p, [IdleCall EXCEPT
               !.op = "filterToolsByPolicy", !.pc = "done",
               !.policy = policy, !.tools = tools,
               !.allowed = filterToolsByPolicy(tools, policy).allowed,
               !.denied = filterToolsByPolicy(tools, policy).denied])
  /\ UNCHANGED <<host, clock, ticks, docker, images, registry, lastPruneAtMs,
                 skipped, firstInsert, history>>

\* Pattern lists: absent, empty, blank patterns only, exact names in mixed
\* case, a prefix glob, the catch-all.
NotAnArray == [isArray |-> FALSE, items |-> <<>>]
ArrayOf(items) == [isArray |-> TRUE, items |-> items]
EXEC == <<"e", "x", "e", "c">>
READ == <<"r", "e", "a", "d">>
PatternLists ==
  { NotAnArray, ArrayOf(<<>>), ArrayOf(<< <<" ">>, <<>> >>),
    ArrayOf(<< <<" ", "E", "x", "e", "c">> >>),
    ArrayOf(<< <<>>, <<"e", "x", "*">> >>),
    ArrayOf(<< READ, <<"*", "e", "c">> >>),
    ArrayOf(<< <<"*">> >>) }
Policies == [allow : PatternLists, deny : PatternLists]
ToolNames ==
  { EXEC, <<" ", "E", "X", "E", "C", " ">>, READ,
    <<"e", "x", "i", "t">>, <<>> }
ToolLists == UNION { [1..n -> ToolNames] : n \in 0..MaxTools }

NextPolicy ==
  \/ \E policy \in Policies, name \in ToolNames :
       CallIsToolAllowed("p1", policy, name)
  \/ \E policy \in Policies, tools \in ToolLists :
       CallFilterToolsByPolicy("p1", tools, policy)
  \/ Complete("p1")

SpecPolicy == InitConfig /\ [][NextPolicy]_vars

\* A pattern of the list matches the name.
SomeMatches(patterns, name) ==
  /\ patterns.isArray
  /\ \E i \in DOMAIN patterns.items :
       /\ Trim(patterns.items[i]) # <<>>
       /\ MatchesPattern(name, compilePattern(patterns.items[i]))

\* The compiled list is empty: absent, not an array, or blank patterns only.
CompilesEmpty(patterns) ==
  \/ ~patterns.isArray
  \/ \A i \in DOMAIN patterns.items : Trim(patterns.items[i]) = <<>>

Verdict(policy, name) ==
  LET normalized == ToLowerCase(Trim(name)) IN
  IF SomeMatches(policy.deny, normalized) THEN FALSE
  ELSE IF CompilesEmpty(policy.allow) THEN TRUE
  ELSE SomeMatches(policy.allow, normalized)

\* C25: isToolAllowed returns false whenever a deny pattern matches the
\* trimmed, lower-cased tool name, whatever the allow list holds; otherwise
\* true when the compiled allow list is empty, and otherwise true exactly
\* when an allow pattern matches.
C25_DenyDominatesAllow ==
  \A p \in Procs :
    LET c == call[p] IN
    c.op = "isToolAllowed" =>
      /\ c.verdict = Verdict(c.policy, c.tool)
      /\ SomeMatches(c.policy.deny, ToLowerCase(Trim(c.tool))) => ~c.verdict

\* a padded upper-case name matched by an allow pattern and by a deny glob
\* is denied
C25_Witness ==
  \E p \in Procs :
    LET c == call[p] IN
    /\ c.op = "isToolAllowed" /\ c.pc = "done"
    /\ c.tool = <<" ", "E", "X", "E", "C", " ">>
    /\ c.policy.allow = ArrayOf(<< <<"*">> >>)
    /\ c.policy.deny = ArrayOf(<< <<>>, <<"e", "x", "*">> >>)
    /\ ~c.verdict

\* The number of places of a list that hold the tool.
Occurrences(list, tool) ==
  Cardinality({ i \in DOMAIN list : list[i] = tool })
Allowed(policy) == [tool \in ToolNames |-> isToolAllowed(policy, tool)]

\* C26: filterToolsByPolicy(T, P) splits T into allowed and denied: allowed
\* followed by denied is a permutation of T, both keep the order the tools
\* have in T, and a tool is in allowed exactly when isToolAllowed(P, tool).
C26_FilterPartitions ==
  \A p \in Procs :
    LET c == call[p]
        ok == Allowed(c.policy)
        IsAllowed(tool) == ok[tool]
        IsDenied(tool) == ~ok[tool]
    IN
    c.op = "filterToolsByPolicy" =>
      /\ \A tool \in ToolNames :
           Occurrences(c.allowed \o c.denied, tool)
             = Occurrences(c.tools, tool)
      /\ Len(c.allowed) + Len(c.denied) = Len(c.tools)
      /\ c.allowed = SelectSeq(c.tools, IsAllowed)
      /\ c.denied = SelectSeq(c.tools, IsDenied)

\* two different denied tools around an allowed one, the denied ones in
\* their order
C26_Witness ==
  \E p \in Procs :
    LET c == call[p] IN
    /\ c.op = "filterToolsByPolicy" /\ c.pc = "done"
    /\ Len(c.tools) = 3
    /\ Len(c.denied) = 2 /\ c.denied[1] # c.denied[2]
    /\ c.denied[1] = c.tools[1] /\ c.allowed = <<c.tools[2]>>
    /\ c.policy.allow.isArray /\ c.policy.allow.items # <<>>

\* ------------------------------------------------- commands in a container
\* docker.ts execInContainer (lines 349-397) and execInContainerRaw (lines
\* 405-456).

\* child.on("close", (code) => ...): code is null when the docker client was
\* terminated by a signal.
NullCode == -1

\* lines 389-391 and 448-450: exitCode: code ?? 0.
ExitCodeOf(code) == IF code = NullCode THEN 0 ELSE code

\* Mutant: the command is handed to the shell as it is.
SpawnSh_Unvalidated(c) ==
  [c EXCEPT !.pc = "execRunning", !.spawned = TRUE, !.shArg = c.command]

\* lines 358, 371-377: validateCommand throws, or docker exec -i <name> sh -c
\* -- <trimmed command> is spawned.
SpawnSh(c) ==
  IF validateCommandOk(c.command)
  THEN [c EXCEPT !.pc = "execRunning", !.spawned = TRUE,
                 !.shArg = Trim(c.command)]
  ELSE Raise(c, "invalid command")

\* lines 414-436: an empty argv throws; otherwise docker exec -i [-e k=v]...
\* <name> <argv...> is spawned, the env keys as they were passed.
SpawnRaw(c) ==
  IF Len(c.argv) = 0 THEN Raise(c, "empty argv")
  ELSE [c EXCEPT !.pc = "execRunning", !.spawned = TRUE]

StartExecInContainer(p, name, command, envKeys, timeout) ==
  /\ call[p].pc = "idle"
  /\ Set(p, SpawnSh([IdleCall EXCEPT !.op = "execInContainer", !.name = name,
                                     !.command = command,
                                     !.envKeys = envKeys,
                                     !.timeout = timeout]))
  /\ UNCHANGED <<host, clock, ticks, docker, images, registry, lastPruneAtMs,
                 skipped, firstInsert, history>>

StartExecInContainerRaw(p, name, argv, envKeys, timeout) ==
  /\ call[p].pc = "idle"
  /\ Set(p, SpawnRaw([IdleCall EXCEPT !.op = "execInContainerRaw",
                                      !.name = name, !.argv = argv,
                                      !.envKeys = envKeys,
                                      !.timeout = timeout]))
  /\ UNCHANGED <<host, clock, ticks, docker, images, registry, lastPruneAtMs,
                 skipped, firstInsert, history>>

\* child.on("error"): the docker client could not be spawned; reject.
ExecError(p) ==
  LET c == call[p] IN
  /\ c.pc = "execRunning"
  /\ Set(p, Raise(c, "spawn"))
  /\ UNCHANGED <<host, clock, ticks, docker, images, registry, lastPruneAtMs,
                 skipped, firstInsert, history>>

\* The docker client exits by itself with the command's exit code (or its
\* own, when the container does not run); the close handler resolves.
ExecExits(p) ==
  LET c == call[p] IN
  /\ c.pc = "execRunning"
  /\ \E code \in IF docker[c.name].exists /\ docker[c.name].running
                 THEN {0, 1} ELSE {1} :
       Set(p, [c EXCEPT !.pc = "returned", !.exitCode = ExitCodeOf(code)])
  /\ UNCHANGED <<host, clock, ticks, docker, images, registry, lastPruneAtMs,
                 skipped, firstInsert, history>>

\* spawn's timeout option (lines 376, 435; none when opts.timeout is 0 or
\* unset) expires: node sends the docker client SIGTERM.
ExecTimeout(p) ==
  LET c == call[p] IN
  /\ c.pc = "execRunning"
  /\ c.timeout > 0
  /\ Set(p, [c EXCEPT !.pc = "execKilled", !.timedOut = TRUE])
  /\ UNCHANGED <<host, clock, ticks, docker, images, registry, lastPruneAtMs,
                 skipped, firstInsert, history>>

\* The docker client ends after SIGTERM: terminated by the signal (close
\* with code null), or, where the client handles the signal, with an exit
\* code of its own.
ExecKilledCloses(p) ==
  LET c == call[p] IN
  /\ c.pc = "execKilled"
  /\ \E code \in {NullCode, 1} :
       Set(p, [c EXCEPT !.pc = "returned", !.exitCode = ExitCodeOf(code)])
  /\ UNCHANGED <<host, clock, ticks, docker, images, registry, lastPruneAtMs,
                 skipped, firstInsert, history>>

BlankSetup == <<" ">>
ExecConfigs ==
  { MkConfig(DEFAULT_SANDBOX_IMAGE, "none", BlankSetup),
    MkConfig(DEFAULT_SANDBOX_IMAGE, "ro", GoodSetup),
    MkConfig(CUSTOM_IMAGE, "rw", BadSetup) }

Commands ==
  { <<"l", "s">>, <<" ", "l", "s", " ">>, <<" ">>, <<"l", NUL>>,
    <<"a", ";", "b">>, <<"a", "$", "b">> }
Argvs == { <<>>, <<"ls">>, <<"sh", ";">> }
EnvKeySets ==
  { {}, {<<"M", "Y", "_", "1">>}, {<<"K", "=", "e">>},
    {<<"1", "B">>, <<"O", "K">>} }
Timeouts == {0, 1}

NextExec ==
  \/ \E k \in SessionKeys, dir \in WorkspaceDirs, cfg \in ExecConfigs :
       StartEnsure("p1", k, dir, cfg)
  \/ EnsureStep("p1")
  \/ \E command \in Commands, envKeys \in EnvKeySets, timeout \in Timeouts :
       StartExecInContainer("p1", TheName, command, envKeys, timeout)
  \/ \E argv \in Argvs, envKeys \in EnvKeySets, timeout \in Timeouts :
       StartExecInContainerRaw("p1", TheName, argv, envKeys, timeout)
  \/ ExecError("p1")
  \/ ExecExits("p1")
  \/ ExecTimeout("p1")
  \/ ExecKilledCloses("p1")
  \/ Complete("p1")
  \/ Tick
  \/ \E n \in Names : ContainerStops(n)

SpecExec == Init /\ [][NextExec]_vars

\* C17: execInContainerRaw raises before spawning docker when argv is empty
\* or an env key does not match ^[A-Za-z_][A-Za-z0-9_]*$; only otherwise does
\* it spawn docker exec.
C17_RawValidatesArgvAndEnvKeys ==
  \A p \in Procs :
    LET c == call[p] IN
    c.op = "execInContainerRaw" =>
      ( c.spawned <=> ( /\ c.argv # <<>>
                        /\ \A k \in c.envKeys : validateEnvKeyOk(k) ) )

\* A command the shell must not get: blank, or with a null byte or one of
\* ; & | ` $ < > \ in it.
Dangerous(command) ==
  \/ \A i \in DOMAIN command : command[i] \in Whitespace
  \/ \E i \in DOMAIN command :
       command[i] \in {NUL, ";", "&", "|", BACKTICK, "$", "<", ">", BACKSLASH}

Ran(c, cmd) == \E i \in DOMAIN c.cmds : c.cmds[i] = cmd

\* No such command reaches sh -c, from execInContainer or as setup command.
NeverReachesShell ==
  \A p \in Procs :
    LET c == call[p] IN
    /\ (c.op = "execInContainer" /\ c.spawned) =>
         (~Dangerous(c.command) /\ ~Dangerous(c.shArg))
    /\ (c.op = "execInContainer" /\ Dangerous(c.command)) =>
         (c.pc = "raised" /\ ~c.spawned)
    /\ (c.op = "ensure" /\ (c.pc = "setup" \/ Ran(c, "exec"))) =>
         ~Dangerous(c.cfg.docker.setupCommand)

\* C18 as claimed: no blank command and no command with a null byte or one
\* of ; & | ` $ < > \ reaches sh -c; execInContainer and the setup-command
\* step of container creation raise for such a command without spawning
\* docker exec.
C18_Original ==
  /\ NeverReachesShell
  /\ \A p \in Procs :
       LET c == call[p] IN
       ( /\ c.op = "ensure" /\ Ran(c, "create")
         /\ c.cfg.docker.setupCommand # NoCommand
         /\ Dangerous(c.cfg.docker.setupCommand) ) => c.pc # "returned"

\* C18 as amended: no blank command and no command with a null byte or one
\* of ; & | ` $ < > \ reaches sh -c; execInContainer raises for such a
\* command without spawning docker exec, and so does the setup-command step
\* of container creation unless the setup command is blank, in which case
\* the step is left out and the creation goes on.
C18_NoInjectionReachesShell ==
  /\ NeverReachesShell
  /\ \A p \in Procs :
       LET c == call[p]
           setup == c.cfg.docker.setupCommand
       IN
       ( c.op = "ensure" /\ Ran(c, "create") /\ c.pc = "returned" ) =>
         IF Trim(setup) = <<>> THEN ~Ran(c, "exec")
         ELSE ~Dangerous(setup) /\ Ran(c, "exec")

\* execInContainer raised for a command with a metacharacter, nothing spawned
C18_Witness ==
  \E p \in Procs :
    LET c == call[p] IN
    /\ c.op = "execInContainer" /\ c.pc = "raised" /\ ~c.spawned
    /\ c.command = <<"a", ";", "b">>

\* C19: when the timeout of execInContainer or execInContainerRaw expires
\* the docker client is terminated and the call returns a result whose
\* exitCode is not zero.
C19_TimeoutGivesNonZeroExit ==
  \A p \in Procs :
    LET c == call[p] IN
    ( /\ c.op \in {"execInContainer", "execInContainerRaw"}
      /\ c.timedOut /\ c.pc = "returned" ) => c.exitCode # 0

\* ------------------------------------------- a call and a pruning, interleaved
\* One ensureSandboxContainer call (p1) and one prune pass or one
\* pruneAllSandboxes call (p2) whose steps interleave.
EvictingConfig == [idleHours |-> 1, maxAgeDays |-> 1]

\* The container of the session, made for the first config an age ago and
\* recorded; it runs or has stopped.
PlainConfig == MkConfig(DEFAULT_SANDBOX_IMAGE, "none", NoCommand)
PlainHash ==
  computeSandboxConfigHash(PlainConfig.docker, PlainConfig.workspaceAccess,
                           "/ws/s1")
InitPruneRace ==
  /\ InitCommon
  /\ skipped = <<>>
  /\ images = {}
  /\ registry = (TheName :> [AgedRow EXCEPT !.configHash = PlainHash])
  /\ \E running \in BOOLEAN :
       docker = [n \in Names |->
                  IF n = TheName
                  THEN [NoContainer EXCEPT !.exists = TRUE,
                                           !.running = running,
                                           !.configHash = PlainHash,
                                           !.image = DEFAULT_SANDBOX_IMAGE]
                  ELSE NoContainer]
  /\ firstInsert = [n \in Names |->
                      IF n = TheName
                      THEN {[createdAtMs |-> AgedRow.createdAtMs,
                             image |-> AgedRow.image]}
                      ELSE {}]

\* The pruning starts before the ensure call has finished.
EnsureNotFinished == call["p1"].pc \notin {"returned", "raised"}

NextPruneRace ==
  \/ \E k \in SessionKeys, dir \in WorkspaceDirs, cfg \in Configs :
       StartEnsure("p1", k, dir, cfg)
  \/ EnsureStep("p1")
  \/ EnsureNotFinished /\ StartMaybePrune("p2", EvictingConfig)
  \/ ListRegistryEntries("p2")
  \/ PruneRm("p2")
  \/ PruneRemoveEntry("p2")
  \/ EnsureNotFinished /\ StartPruneAll("p2", "pruneAll")
  \/ PruneAllList("p2")
  \/ PruneAllRm("p2")
  \/ PruneAllRemove("p2")

SpecPruneRace == InitPruneRace /\ [][NextPruneRace]_vars

\* C39: when an ensureSandboxContainer call and a prune pass or a
\* pruneAllSandboxes call for the same container name have both finished and
\* the ensure call returned the name, that container exists and runs and has
\* a registry record.
C39_ReturnedContainerSurvivesPrune ==
  LET c == call["p1"]
      d == call["p2"]
  IN
  ( /\ c.op = "ensure" /\ c.pc = "returned"
    /\ d.op \in {"maybePrune", "pruneAll"}
    /\ d.pc \in {"returned", "raised"} ) =>
    /\ docker[c.name].exists /\ docker[c.name].running
    /\ HasRow(c.name)

\* -------------------------------------------------------------- the runtime
\* The value a call produces: returned, or thrown.
Returns(v) == [raised |-> FALSE, value |-> v]
Throws(why) == [raised |-> TRUE, value |-> why]

\* What an injected config getter returns for a key.
GetterResult(getter, key) ==
  IF key = Undefined THEN <<getter, "()">> ELSE <<getter, "(", key, ")">>

\* runtime.ts lines 32-34
getLogger(rt) == Returns(<<rt.logger>>)

\* Mutant: the storage is handed out without the test for null.
getStorage_NoGuard(rt) == Returns(<<rt.storage>>)

\* runtime.ts lines 36-41
getStorage(rt) ==
  IF rt.storage = Null THEN Throws(<<"Storage not initialized">>)
  ELSE Returns(<<rt.storage>>)

\* runtime.ts lines 43-48: the getter is called without a key.
getMainConfig(rt) ==
  IF rt.getMainConfig = Null THEN Throws(<<"Config not initialized">>)
  ELSE Returns(GetterResult(rt.getMainConfig, Undefined))

RuntimeGetters == {"getLogger", "getStorage", "getMainConfig"}

\* One of the three getters is called.
CallRuntimeGetter(p, op) ==
  LET r == CASE op = "getLogger" -> getLogger(host.runtime)
             [] op = "getStorage" -> getStorage(host.runtime)
             [] OTHER -> getMainConfig(host.runtime)
  IN
  /\ call[p].pc = "idle"
  /\ Set(p, [IdleCall EXCEPT !.op = op, !.result = r.value,
                             !.pc = IF r.raised THEN "raised"
                                    ELSE "returned"])
  /\ UNCHANGED <<host, clock, ticks, docker, images, registry, lastPruneAtMs,
                 skipped, firstInsert, history>>

\* setRuntime is called, for the first time or again.
CallSetRuntime(p, deps) ==
  /\ call[p].pc = "idle"
  /\ Set(p, [IdleCall EXCEPT !.op = "setRuntime", !.pc = "returned"])
  /\ host' = setRuntime(host, deps)
  /\ UNCHANGED <<clock, ticks, docker, images, registry, lastPruneAtMs,
                 skipped, firstInsert, history>>

\* The dependencies a host can inject.
RuntimeDeps ==
  [logger : {"ctx.log", "log2"}, storage : {"ctx.storage", "storage2"},
   getMainConfig : {"ctx.getMainConfig", "getter2"}]

\* The module as loaded: setRuntime has not been called.
InitRuntime ==
  /\ clock = StartMs
  /\ ticks = 0
  /\ call = [p \in Procs |-> IdleCall]
  /\ lastPruneAtMs = 0
  /\ history = <<>>
  /\ skipped = <<>>
  /\ images = {}
  /\ docker = [n \in Names |-> NoContainer]
  /\ registry = <<>>
  /\ firstInsert = [n \in Names |-> {}]
  /\ host = [RunningHost EXCEPT !.storage = FALSE, !.initialized = FALSE,
                                !.extension = FALSE, !.runtime = NoRuntime,
                                !.injected = {}, !.registered = 0]

NextRuntime ==
  \E p \in Procs :
    \/ \E deps \in RuntimeDeps : CallSetRuntime(p, deps)
    \/ \E op \in RuntimeGetters : CallRuntimeGetter(p, op)
    \/ Complete(p)

SpecRuntime == InitRuntime /\ [][NextRuntime]_vars

\* The call p makes in this step is a call of the getter op.
CallsGetter(p, op) == call[p].pc = "idle" /\ call'[p].op = op

\* C31: before setRuntime has been called getStorage and getMainConfig
\* raise and getLogger returns the no-op logger; after setRuntime the three
\* return the logger and the storage last injected and what the injected
\* config getter returns when called without a key.
C31_RuntimeGetters ==
  [][ \A p \in Procs :
        LET c == call'[p]
            returned == c.pc = "returned"
        IN
        /\ CallsGetter(p, "getLogger") =>
             /\ returned
             /\ \A deps \in host.injected : c.result = <<deps.logger>>
             /\ host.injected = {} => c.result = <<"noopLogger">>
        /\ CallsGetter(p, "getStorage") =>
             /\ returned <=> host.injected # {}
             /\ \A deps \in host.injected : c.result = <<deps.storage>>
        /\ CallsGetter(p, "getMainConfig") =>
             /\ returned <=> host.injected # {}
             /\ \A deps \in host.injected :
                  c.result = GetterResult(deps.getMainConfig, Undefined)
    ]_vars

\* after a second setRuntime, getStorage returned the storage injected last
C31_Witness ==
  \E p, q \in Procs :
    /\ call[p].op = "getStorage" /\ call[p].pc = "returned"
    /\ call[p].result = <<"storage2">>
    /\ call[q].op = "getMainConfig" /\ call[q].pc = "returned"
    /\ call[q].result = <<"getter2", "()">>
    /\ host.injected = {[logger |-> "log2", storage |-> "storage2",
                         getMainConfig |-> "getter2"]}

\* ------------------------------------------------ the registry on its own
\* The entries callers of updateRegistry pass: any times, image and hash.
RegistryNames == { TheName, <<"o", "l", "d">> }
RegistryEntries ==
  [sessionKey : { <<"s", "1">>, <<"s", "2">> },
   createdAtMs : { StartMs, StartMs + TickMs },
   lastUsedAtMs : { StartMs, StartMs + TickMs },
   image : { DEFAULT_SANDBOX_IMAGE, CUSTOM_IMAGE },
   configHash : { NoHash, LegacyHash, EmptyHash }]

InitRegistry ==
  /\ InitCommon
  /\ skipped = <<>>
  /\ images = {}
  /\ docker = [n \in Names |-> NoContainer]
  /\ registry = <<>>
  /\ firstInsert = [n \in Names |-> {}]

\* updateRegistry and removeRegistryEntry, one call at a time.
NextRegistry ==
  \/ \E n \in RegistryNames, e \in RegistryEntries :
       StartUpdateRegistry("p1", n, e)
  \/ \E n \in RegistryNames : StartRemoveRegistryEntry("p1", n)
  \/ RegistryStep("p1")
  \/ RepoDelete("p1")
  \/ Complete("p1")

SpecRegistry == InitRegistry /\ [][NextRegistry]_vars

\* Two callers of updateRegistry whose steps interleave; one call each.
NextRegistryRace ==
  \E p \in Procs :
    \/ \E e \in RegistryEntries : StartUpdateRegistry(p, TheName, e)
    \/ RegistryStep(p)

SpecRegistryRace == InitRegistry /\ [][NextRegistryRace]_vars

\* ------------------------------------------------- first access to the store
\* updateRegistrySQL with its first statement, `await initSandboxStorage()`
\* (sandbox-repository.ts lines 124-126 and 147-157): nothing to do once
\* initialized is true; getStorage throws before setRuntime; otherwise
\* storage.register is called and awaited.
StartFirstAccess(p, name, entry) ==
  LET c == [IdleCall EXCEPT !.op = "updateRegistry", !.name = name,
                            !.entry = entry,
                            !.extBefore = host.initialized]
  IN
  /\ call[p].pc = "idle"
  /\ host.calls < MaxCalls
  /\ host' = [host EXCEPT !.calls = @ + 1]
  /\ Set(p, IF host.initialized THEN [c EXCEPT !.pc = "updateRegistry"]
            ELSE IF ~host.storage THEN Raise(c, "storage not initialized")
            ELSE [c EXCEPT !.pc = "initStorage"])
  /\ UNCHANGED <<clock, ticks, docker, images, registry, lastPruneAtMs,
                 skipped, firstInsert, history>>

FirstAccessEntries ==
  { e \in RegistryEntries :
      /\ e.sessionKey = <<"s", "1">> /\ e.createdAtMs = StartMs
      /\ e.image = DEFAULT_SANDBOX_IMAGE /\ e.configHash = NoHash }

\* The module as loaded, before or after plugin.init has called setRuntime;
\* the schema has not been registered.
InitStorageAccess ==
  /\ clock = StartMs
  /\ ticks = 0
  /\ call = [p \in Procs |-> IdleCall]
  /\ lastPruneAtMs = 0
  /\ history = <<>>
  /\ skipped = <<>>
  /\ images = {}
  /\ docker = [n \in Names |-> NoContainer]
  /\ registry = <<>>
  /\ firstInsert = [n \in Names |-> {}]
  /\ \E rt \in {NoRuntime, PluginDeps} :
       host = [RunningHost EXCEPT !.storage = (rt.storage # Null),
                                  !.initialized = FALSE,
                                  !.extension = FALSE, !.runtime = rt,
                                  !.injected = {}, !.registered = 0]

NextStorageAccess ==
  \E p \in Procs :
    \/ \E n \in RegistryNames, e \in FirstAccessEntries :
         StartFirstAccess(p, n, e)
    \/ InitStorage(p)
    \/ RegistryStep(p)
    \/ Complete(p)

SpecStorageAccess == InitStorageAccess /\ [][NextStorageAccess]_vars

\* C40: the schema is registered with the host storage at most once, also
\* when several registry operations make their first access concurrently,
\* and a call made after a registration succeeded registers nothing.
C40_RegisteredAtMostOnce ==
  /\ host.registered <= 1
  /\ \A p \in Procs :
       (call[p].op = "updateRegistry" /\ call[p].extBefore) =>
         call[p].pc # "initStorage"

C6_CreatedAtAndImageImmutable ==
  /\ \A n \in DOMAIN registry :
       /\ firstInsert[n] # {}
       /\ registry[n].createdAtMs = RowOf(firstInsert[n]).createdAtMs
       /\ registry[n].image = RowOf(firstInsert[n]).image
  /\ \A p \in Procs :
       LET c == call[p] IN
       (c.op = "updateRegistry" /\ c.pc = "done") =>
         /\ HasRow(c.name)
         /\ registry[c.name].lastUsedAtMs = c.entry.lastUsedAtMs

\* a later call passed another createdAtMs and image and a later lastUsedAtMs
C6_Witness ==
  \E p \in Procs :
    LET c == call[p] IN
    /\ c.op = "updateRegistry" /\ c.pc = "done"
    /\ c.existing # {}
    /\ c.entry.createdAtMs # registry[c.name].createdAtMs
    /\ c.entry.image # registry[c.name].image
    /\ c.entry.lastUsedAtMs > RowOf(c.existing).lastUsedAtMs

\* C7: when two concurrent updateRegistry calls for a containerName without a
\* row both read "no row" before either inserts, neither raises, one row
\* results, and its createdAtMs and image are those of the insert that
\* succeeded (the other call's retry as an update preserves them).
C7_InsertRacePreservesFirst ==
  \A p, q \in Procs :
    LET c == call[p]
        d == call[q]
    IN
    ( /\ p # q
      /\ c.op = "updateRegistry" /\ d.op = "updateRegistry"
      /\ c.name = d.name
      /\ c.pc = "done" /\ d.pc = "done"
      /\ c.existing = {} /\ d.existing = {} ) =>
        /\ HasRow(c.name)
        /\ registry[c.name].createdAtMs = RowOf(firstInsert[c.name]).createdAtMs
        /\ registry[c.name].image = RowOf(firstInsert[c.name]).image

\* ------------------------------------------------------------------ claims
IsPrefix(s, t) == Len(s) <= Len(t) /\ SubSeq(t, 1, Len(s)) = s

UpdatePcs == {"updateRegistry", "repoInsert", "repoUpdate", "repoUpdateRetry"}

\* C1: without concurrent operations on the container name, whenever
\* ensureSandboxContainer returns a name, that container exists and is
\* running at the moment of return, whatever the starting state; on the
\* hot-drift path it is the untouched, already running drifted container.
C1_ReturnedContainerRuns ==
  \A p \in Procs :
    LET c == call[p] IN
    (c.op = "ensure" /\ c.pc = "returned") =>
      /\ c.result = c.name
      /\ docker[c.name].exists
      /\ docker[c.name].running
      /\ c.path = "hot" =>
           /\ docker[c.name] = c.before
           /\ c.before.running

\* a stopped container without drift was started and its name returned
C1_Witness ==
  \E p \in Procs :
    /\ call[p].pc = "returned"
    /\ call[p].path = "restart"
    /\ ~call[p].before.running

\* What the call observed makes the hot window apply.
HotCondition(c) ==
  /\ c.op = "ensure" /\ c.decided
  /\ c.running
  /\ (c.currentHash = NoHash \/ c.currentHash # c.expectedHash)
  /\ \/ c.registryEntry = {}
     \/ c.now - RowOf(c.registryEntry).lastUsedAtMs < 5 * 60 * 1000

\* C2: when the container is found running with a hash other than the
\* expected one and was used less than 5 minutes ago (or has no registry
\* lastUsedAtMs), the call issues no docker rm, create or start, leaves the
\* container as it was and goes on to the registry update and returns the name.
C2_HotWindowProtection ==
  \A p \in Procs :
    LET c == call[p] IN
    HotCondition(c) =>
      /\ c.cmds = <<>>
      /\ docker[c.name] = c.before
      /\ c.pc \in UpdatePcs \cup {"returned"}
      /\ c.pc = "returned" => c.result = c.name

\* a drifted container used less than 5 minutes ago was kept
C2_Witness ==
  \E p \in Procs :
    /\ HotCondition(call[p])
    /\ call[p].registryEntry # {}
    /\ call[p].pc = "returned"

\* C28: when image inspection reports the configured image missing and it
\* is the default image, debian:bookworm-slim is pulled and tagged as the
\* default image before docker create is issued; when the missing image is
\* not the default one, or image inspection fails otherwise, the call raises,
\* issues no docker create and leaves the registry as it was.
C28_MissingImage ==
  \A p \in Procs :
    LET c == call[p]
        isDefault == c.cfg.docker.image = DEFAULT_SANDBOX_IMAGE
    IN
    c.op = "ensure" =>
      /\ (c.imageSeen = "missing" /\ isDefault /\ AttemptedCreate(c)) =>
           /\ c.imageCmds = <<"pull", "tag">>
           /\ {BASE_IMAGE, DEFAULT_SANDBOX_IMAGE} \subseteq images
      /\ (c.imageSeen = "missing" /\ isDefault) =>
           /\ c.pc \in {"pull", "tag"} => ~AttemptedCreate(c)
           /\ IsPrefix(c.imageCmds, <<"pull", "tag">>)
      /\ ( \/ c.imageSeen = "missing" /\ ~isDefault
           \/ c.imageSeen = "error" ) =>
           /\ c.pc = "raised"
           /\ c.error \in {"image not found", "image inspect failed"}
           /\ c.result = <<>>
           /\ ~AttemptedCreate(c)
           /\ c.imageCmds = <<>>
           /\ FindById(c.name) = c.startRow

\* the default image was missing: it was pulled and tagged, the container
\* was created and the call returned
C28_Witness ==
  \E p \in Procs :
    LET c == call[p] IN
    /\ c.op = "ensure" /\ c.pc = "returned"
    /\ c.imageSeen = "missing"
    /\ c.cfg.docker.image = DEFAULT_SANDBOX_IMAGE
    /\ c.imageCmds = <<"pull", "tag">>
    /\ AttemptedCreate(c)
    /\ docker[c.name].exists

\* How many times the call has issued the command.
TimesRan(c, cmd) == Cardinality({ i \in DOMAIN c.cmds : c.cmds[i] = cmd })

CreatePaths == {"absent", "cold"}

C33_ReturnedContainerIsSetUp ==
  \A p \in Procs :
    LET c == call[p] IN
    ( /\ c.op = "ensure" /\ c.pc = "returned"
      /\ docker[c.name].exists
      /\ Trim(docker[c.name].setupCommand) # <<>> ) =>
      docker[c.name].setupOk

\* C34: once an ensureSandboxContainer call whose docker create succeeded
\* has finished, by returning or by raising, the container it created has a
\* registry record as long as it exists.
C34_CreatedContainersAreRegistered ==
  \A p \in Procs :
    LET c == call[p] IN
    ( /\ c.op = "ensure" /\ c.pc \in {"returned", "raised"}
      /\ Created(c)
      /\ docker[c.name].exists ) =>
      HasRow(c.name)

\* The call d follows the call c, which created the container and returned
\* it, with the same arguments, and finds that container running.
RepeatsCreation(c, d) ==
  /\ c.op = "ensure" /\ c.pc = "returned" /\ c.path \in CreatePaths
  /\ d.op = "ensure"
  /\ d.sessionKey = c.sessionKey /\ d.workspaceDir = c.workspaceDir
  /\ d.cfg = c.cfg
  /\ d.before.exists /\ d.before.running
  /\ d.pc # "dockerContainerState" /\ d.state.exists

Follows(c, d) ==
  /\ c.op = "ensure" /\ c.pc = "returned"
  /\ d.op = "ensure" /\ d.name = c.name

\* C36: a call that takes the hot-window path and returns leaves the row's
\* lastUsedAtMs at its now; a call that follows a returned call for the name
\* removes and recreates the container only when it starts at least five
\* minutes after that call or finds the container stopped; and one that
\* starts less than five minutes after it and finds the container running
\* with another config leaves the container as it is.
C36_HotWindowSlides ==
  /\ \A p \in Procs :
       LET c == call[p] IN
       ( /\ c.op = "ensure" /\ c.path = "hot" /\ c.pc = "returned"
         /\ (p = "p1" => call["p2"].pc = "idle") ) =>
         /\ HasRow(c.name)
         /\ registry[c.name].lastUsedAtMs = c.now
  /\ LET c == call["p1"]
         d == call["p2"]
     IN
     Follows(c, d) =>
       /\ d.path = "cold" =>
            \/ d.now - c.now >= HOT_CONTAINER_WINDOW_MS
            \/ ~d.state.running
       /\ ( /\ d.decided /\ d.hashMismatch /\ d.state.running
            /\ d.now - c.now < HOT_CONTAINER_WINDOW_MS ) =>
            /\ d.path = "hot"
            /\ d.cmds = <<>>
            /\ docker[d.name] = d.before

\* the third call of a stream with gaps of less than five minutes still
\* skips a drift that is five minutes old
C36_Witness ==
  LET c == call["p1"]
      d == call["p2"]
  IN
  /\ Follows(c, d)
  /\ c.path = "hot" /\ c.startRow # {}
  /\ d.path = "hot" /\ d.pc = "returned"
  /\ d.now - c.now < HOT_CONTAINER_WINDOW_MS /\ d.now > c.now
  /\ d.now - RowOf(c.startRow).lastUsedAtMs >= HOT_CONTAINER_WINDOW_MS
  /\ docker[d.name].running
  /\ docker[d.name].configHash # d.expectedHash
  /\ registry[d.name].lastUsedAtMs = d.now

\* The hash the registry row read by the call holds, NoHash without a row.
StoredHash(c) ==
  IF c.registryEntry = {} THEN NoHash ELSE RowOf(c.registryEntry).configHash

\* C37: the hash compared with the expected one is the container's label
\* when the label was read and is not blank, and otherwise the hash of the
\* registry row; there is drift exactly when that hash is missing or differs
\* from the expected one; a drifted container is left alone when it runs and
\* was used less than five minutes ago (or has no registry row), and is
\* otherwise removed and created again.
C37_DriftFromLabelThenRegistry ==
  \A p \in Procs :
    LET c == call[p] IN
    (c.op = "ensure" /\ c.decided) =>
      /\ c.labelSeen \in {c.before.configHash, NoHash}
      /\ c.labelSeen # NoHash => c.currentHash = c.labelSeen
      /\ c.labelSeen = NoHash => c.currentHash = StoredHash(c)
      /\ c.hashMismatch <=>
           (c.currentHash = NoHash \/ c.currentHash # c.expectedHash)
      /\ c.hashMismatch <=> c.path \in {"hot", "cold"}
      /\ c.path = "hot" <=>
           /\ c.hashMismatch /\ c.state.running
           /\ \/ c.registryEntry = {}
              \/ c.now - RowOf(c.registryEntry).lastUsedAtMs
                   < HOT_CONTAINER_WINDOW_MS
      /\ c.path = "hot" => (c.cmds = <<>> /\ docker[c.name] = c.before)
      /\ (c.path = "cold" /\ c.pc # "rm") => c.cmds[1] = "rm"
      /\ (c.path = "cold" /\ c.pc = "returned") =>
           /\ SubSeq(c.cmds, 1, 3) = <<"rm", "create", "start">>
           /\ docker[c.name].configHash = c.expectedHash

\* the label could not be read and the registry's hash, equal to the
\* expected one, decided that there is no drift
C37_Witness ==
  \E p \in Procs :
    LET c == call[p] IN
    /\ c.op = "ensure" /\ c.decided /\ c.pc = "returned"
    /\ c.before.configHash # NoHash /\ c.labelSeen = NoHash
    /\ c.currentHash = c.expectedHash /\ ~c.hashMismatch
    /\ c.path = "reuse"

\* A prune configuration that evicts by age alone, after one day.
AgeOnly == [idleHours |-> 0, maxAgeDays |-> 1]

\* C38: when a call that removed a drifted container and created a new one
\* returns and the name had a registry record, the record has the
\* createdAtMs and the image of the old record, so that a prune pass counts
\* the age from the old container's creation.
C38_RecreationKeepsCreatedAtAndImage ==
  \A p \in Procs :
    LET c == call[p] IN
    ( /\ c.op = "ensure" /\ c.path = "cold" /\ c.pc = "returned"
      /\ c.startRow # {} ) =>
      LET old == RowOf(c.startRow)
          afterOneDay == old.createdAtMs + DAY_MS + 1
      IN
      /\ Ran(c, "rm") /\ Ran(c, "create")
      /\ HasRow(c.name)
      /\ registry[c.name].createdAtMs = old.createdAtMs
      /\ registry[c.name].image = old.image
      /\ docker[c.name].image = c.cfg.docker.image
      /\ ShouldEvict(AgeOnly, afterOneDay, registry[c.name])
      /\ c.now > old.createdAtMs =>
           ~ShouldEvict(AgeOnly, afterOneDay,
                        [registry[c.name] EXCEPT !.createdAtMs = c.now])

\* the new container runs another image than the one its record names
C38_Witness ==
  \E p \in Procs :
    LET c == call[p] IN
    /\ c.op = "ensure" /\ c.path = "cold" /\ c.pc = "returned"
    /\ c.startRow # {}
    /\ docker[c.name].exists /\ docker[c.name].running
    /\ registry[c.name].image # docker[c.name].image
    /\ registry[c.name].createdAtMs < c.now
    /\ registry[c.name].lastUsedAtMs = c.now

\* What the call observed makes the drift cold.
ColdCondition(c) ==
  /\ c.op = "ensure" /\ c.decided
  /\ (c.currentHash = NoHash \/ c.currentHash # c.expectedHash)
  /\ \/ ~c.state.running
     \/ /\ c.registryEntry # {}
        /\ c.now - RowOf(c.registryEntry).lastUsedAtMs >= 5 * 60 * 1000

\* C3: on drift with the container stopped, or running but last used at
\* least 5 minutes ago, the call issues docker rm -f, then create, then start
\* (then the setup command); when it returns, the container carries the
\* expected hash as label and the registry row's configHash is the expected
\* hash.
C3_ColdDriftRecreates ==
  \A p \in Procs :
    LET c == call[p] IN
    ColdCondition(c) =>
      /\ c.pc \in {"rm", "dockerImageExists", "pull", "tag", "create",
                   "startNew", "setup", "raised", "returned"} \cup UpdatePcs
      /\ IsPrefix(c.cmds, <<"rm", "create", "start", "exec">>)
      /\ c.pc # "rm" => Len(c.cmds) >= 1
      /\ c.pc \in UpdatePcs \cup {"returned"} =>
           /\ Len(c.cmds) >= 3
           /\ docker[c.name].exists /\ docker[c.name].running
           /\ docker[c.name].configHash = c.expectedHash
      /\ c.pc = "returned" =>
           /\ HasRow(c.name)
           /\ registry[c.name].configHash = c.expectedHash

\* a running container with drift, last used 5 minutes ago or more, was
\* replaced
C3_Witness ==
  \E p \in Procs :
    /\ ColdCondition(call[p])
    /\ call[p].state.running
    /\ call[p].before.configHash # NoHash
    /\ call[p].pc = "returned"

\* C4 as claimed: after a hot-window skip the registry row's configHash is
\* the hash the container already had, never the expected hash, and every
\* later call with the same config detects drift again (it never treats the
\* container as up to date) until a call has created the container anew.
C4_Original ==
  \A p \in Procs :
    LET c == call[p] IN
    c.op = "ensure" =>
      /\ (c.pc = "returned" /\ c.path = "hot") =>
           /\ HasRow(c.name)
           /\ registry[c.name].configHash = c.currentHash
           /\ registry[c.name].configHash # c.expectedHash
      /\ c.sawSkipped => c.path \notin {"reuse", "restart"}
      /\ (c.sawSkipped /\ c.decided) => c.hashMismatch

\* C4 as amended: after a hot-window skip the registry row's configHash is
\* the hash the call found for the container (its label, else the stored
\* hash), never the expected hash; when the container's label differed from
\* the expected hash at the skip, every later call with the same config
\* detects drift again until a call has created the container anew.
C4_SkipKeepsDrift ==
  \A p \in Procs :
    LET c == call[p] IN
    c.op = "ensure" =>
      /\ (c.pc = "returned" /\ c.path = "hot") =>
           /\ HasRow(c.name)
           /\ registry[c.name].configHash = c.currentHash
           /\ registry[c.name].configHash # c.expectedHash
      /\ c.sawLabelSkipped => c.path \notin {"reuse", "restart"}
      /\ (c.sawLabelSkipped /\ c.decided) => c.hashMismatch

\* a second call with the same config found the drift again and skipped again
C4_Witness ==
  \E p \in Procs :
    /\ call[p].sawLabelSkipped
    /\ call[p].path = "hot"
    /\ call[p].pc = "returned"

WorkspaceBindFor(workspaceAccess) ==
  CASE workspaceAccess = "none" -> "none"
    [] workspaceAccess = "ro" -> "ro"
    [] OTHER -> "rw"

\* C5: a container created for workspaceAccess none has no bind mount of the
\* host workspace directory; for ro the bind is read-only; only for rw is it
\* writable.
C5_WorkspaceMountFollowsAccess ==
  \A p \in Procs :
    LET c == call[p] IN
    (c.op = "ensure" /\ c.pc = "startNew") =>
      docker[c.name].mount = WorkspaceBindFor(c.cfg.workspaceAccess)

====
